---- MODULE Spec2Model ----
(***************************************************************************)
(* Gabagool volatility-arbitrage bot: the Redis-backed position store      *)
(* (state_manager.py), the Position model (models/position.py), the        *)
(* Accumulator, the Equalizer and the Risk Engine (core/*.py) and the      *)
(* panic/halt/resume surface of the trading service.                       *)
(*                                                                         *)
(* Units.  Prices are in cents (Decimal("1.00") is 100, Decimal("0.99") is *)
(* 99), quantities in shares, costs in cent-shares.  Quantities are        *)
(* integers; prices, costs and every quotient (cost / qty) are exact       *)
(* fractions <<n, d>> in lowest terms with d > 0.  Decimal rounds a        *)
(* quotient at 28 significant digits, which cannot change any comparison   *)
(* made here for the quantities explored.  str(Decimal) / Decimal(str) is  *)
(* exact, so the JSON value of the position key is the record of its       *)
(* fields.                                                                 *)
(***************************************************************************)
EXTENDS Integers, Sequences, FiniteSets, TLC

VARIABLES
    redis_position,   \* value of key gabagool:position: <<>> (no key) or <<dict>>
    redis_halt,       \* value of key gabagool:halt: "nil", "0" or "1"
    redis_trades,     \* ZCARD of the sorted set gabagool:trades
    upd,              \* per task: the update_position_atomic (or get_position) call in
                      \* progress, with the depth of its nested retries
    last_commit,      \* history: the last committed EXEC (task, position before and after)
    issued,           \* history: sums of the deltas handed to update_position_atomic
    serial,           \* history: the same deltas applied one after the other
    calls,            \* history: number of update_position_atomic calls made by the clients
    only_buys,        \* history: every call so far was a buy (qty_delta > 0, cost_delta >= 0)
    side_frame_ok,    \* history: no committed call has changed the other side's primaries
    retried,          \* history: some EXEC has failed with WatchError and was retried
    within_buffer,    \* the market's time_to_expiration() <= settlement_buffer_seconds
    acc,              \* Accumulator task: position in its loop, chosen side and price,
                      \* how its last scan ended
    eq,               \* Equalizer task: position in its loop, rebalance in progress
    risk,             \* Risk Engine task: position in its loop, risk_level, findings
                      \* of the check
    liq,              \* emergency_liquidation runs: of the Risk Engine and of panic_close
    orders,           \* number of BUY and of SELL orders the venue has accepted
    order_budget,     \* number of BUY and of SELL orders the venue accepts in this run
    last_order,       \* history: the last order the venue accepted
    panics,           \* number of panic_close() requests made
    commits,          \* history: number of EXECs committed on the position key
    svc,              \* TradingService: is_running, how far stop() has come, task
                      \* failures and restarts so far, the POST /api/start requests
                      \* accepted so far, the start() coroutines among them that
                      \* have not selected a market yet, and per component the loops
                      \* still running whose task handle the service no longer holds
    reader,           \* a get_recent_trades call of the dashboard and what it returned
    halted_orders     \* history: orders of the Accumulator and of the Equalizer the
                      \* venue accepted while the halt flag held "1"

store_vars == <<redis_position, redis_halt, redis_trades>>
hist_vars == <<last_commit, issued, serial, calls, only_buys, side_frame_ok, retried,
               commits>>
aux_vars == <<svc, reader, halted_orders>>
task_vars == <<within_buffer, acc, eq, risk, liq, orders, order_budget, last_order,
              panics, aux_vars>>
vars == <<redis_position, redis_halt, redis_trades, upd, last_commit, issued, serial,
          calls, only_buys, side_frame_ok, retried, within_buffer, acc, eq, risk, liq,
          orders, order_budget, last_order, panics, commits, svc, reader, halted_orders>>

----------------------------------------------------------------------------
(* Bounds of the model *)

\* number of client tasks calling update_position_atomic concurrently (K)
NumClients == 2
\* total number of update_position_atomic calls the clients make (N)
MaxCalls == 3
\* number of BUY orders the venue accepts in one run of the Accumulator and
\* the Equalizer
MaxOrders == 5
\* numbers of BUY and of SELL orders the venue accepts in one run with the Risk
\* Engine
MaxRiskBuys == 1
MaxRiskSells == 2
\* number of BUY orders the venue accepts in one run of the Accumulator alone
MaxOppOrders == 2
\* number of panic_close() requests in one run
MaxPanics == 1
\* BUY and SELL orders the venue accepts in a run of the Accumulator, the
\* Equalizer and a panic close
MaxVenueBuys == 2
MaxVenueSells == 1
\* number of BUY orders the venue accepts in a run that ends with a shutdown
MaxStopBuys == 2
\* number of times a task ends with an exception its loop does not catch
MaxFailures == 2
\* number of BUY orders the venue accepts in a run of the Equalizer alone
MaxEqBuys == 2
\* BUY and SELL orders the venue accepts in a run of the Accumulator with a
\* panic close and a resume
MaxCycleBuys == 2
MaxCycleSells == 1
\* number of BUY orders the venue accepts in a run where reads of the halt
\* flag can fail
MaxHaltBuys == 2

\* POST /api/start requests in one run
MaxStarts == 2
\* largest `limit` a get_recent_trades call is made with, and the number of
\* entries the trade log holds at most when a run with such calls begins
MaxLimit == 3
MaxLogged == 3

----------------------------------------------------------------------------
(* Decimal arithmetic on exact fractions *)

Abs(x) == IF x < 0 THEN -x ELSE x

Min(a, b) == IF a <= b THEN a ELSE b

RECURSIVE GCD(_, _)
GCD(a, b) == IF b = 0 THEN a ELSE GCD(b, a % b)

\* the fraction n / d (d # 0) in lowest terms with a positive denominator
Frac(n, d) ==
    LET s == IF d < 0 THEN -1 ELSE 1
        g == GCD(Abs(n), Abs(d))
    IN  <<(s * n) \div g, (s * d) \div g>>

Dec(n) == <<n, 1>>

FAdd(a, b) == Frac(a[1] * b[2] + b[1] * a[2], a[2] * b[2])
FSub(a, b) == Frac(a[1] * b[2] - b[1] * a[2], a[2] * b[2])
FMul(a, b) == Frac(a[1] * b[1], a[2] * b[2])
FLt(a, b) == a[1] * b[2] < b[1] * a[2]
FLe(a, b) == a[1] * b[2] <= b[1] * a[2]
FMin(a, b) == IF FLe(a, b) THEN a ELSE b

ONE == 100

Sides == {"YES", "NO"}

Other(side) == IF side = "YES" THEN "NO" ELSE "YES"

----------------------------------------------------------------------------
(* models/position.py: Position and its validators *)

\* @validator('avg_yes', 'avg_no', always=True): the value given is ignored
calculate_averages(qty, cost) ==
    IF qty > 0 THEN Frac(cost[1], cost[2] * qty) ELSE Dec(0)

\* @validator('delta', always=True)
calculate_delta(qty_yes, qty_no) == qty_yes - qty_no

\* @validator('pair_cost', always=True)
calculate_pair_cost(avg_yes, avg_no) == FAdd(avg_yes, avg_no)

\* @validator('locked_profit', always=True)
calculate_locked_profit(qty_yes, qty_no, pair_cost) ==
    LET paired_qty == Min(qty_yes, qty_no)
    IN  IF paired_qty > 0 /\ FLt(pair_cost, Dec(ONE))
        THEN FMul(Dec(paired_qty), FSub(Dec(ONE), pair_cost))
        ELSE Dec(0)

\* Position(**d): the primaries are taken from d, every derived field is
\* recomputed by its validator from the fields validated before it.
Position(d) ==
    LET avg_yes == calculate_averages(d.qty_yes, d.cost_yes)
        avg_no == calculate_averages(d.qty_no, d.cost_no)
        pair_cost == calculate_pair_cost(avg_yes, avg_no)
    IN  [qty_yes |-> d.qty_yes, cost_yes |-> d.cost_yes, avg_yes |-> avg_yes,
         qty_no |-> d.qty_no, cost_no |-> d.cost_no, avg_no |-> avg_no,
         pair_cost |-> pair_cost,
         locked_profit |-> calculate_locked_profit(d.qty_yes, d.qty_no, pair_cost),
         delta |-> calculate_delta(d.qty_yes, d.qty_no)]

\* the field defaults of Position: what Position() validates
PositionDefaults ==
    [qty_yes |-> 0, cost_yes |-> Dec(0), avg_yes |-> Dec(0),
     qty_no |-> 0, cost_no |-> Dec(0), avg_no |-> Dec(0),
     pair_cost |-> Dec(0), locked_profit |-> Dec(0), delta |-> 0]

EmptyPosition == Position(PositionDefaults)

Primaries(p) == <<p.qty_yes, p.cost_yes, p.qty_no, p.cost_no>>

----------------------------------------------------------------------------
(* core/state_manager.py: the position key *)

\* get_position() on a reachable store: the stored dict through the validators,
\* Position() when the key is absent
get_position(stored) ==
    IF stored = <<>> THEN EmptyPosition ELSE Position(stored[1])

\* the NO branch adds the cost to the YES leg
apply_delta_cost_on_yes(position, side, qty_delta, cost_delta) ==
    LET moved ==
            IF side = "YES"
            THEN [position EXCEPT !.qty_yes = @ + qty_delta,
                                  !.cost_yes = FAdd(@, cost_delta)]
            ELSE [position EXCEPT !.qty_no = @ + qty_delta,
                                  !.cost_yes = FAdd(@, cost_delta)]
    IN  Position(moved)

\* update_position_atomic, lines 119-128: add the deltas to the primaries of
\* the named side, then rebuild the Position
apply_delta(position, side, qty_delta, cost_delta) ==
    LET moved ==
            IF side = "YES"
            THEN [position EXCEPT !.qty_yes = @ + qty_delta,
                                  !.cost_yes = FAdd(@, cost_delta)]
            ELSE IF side = "NO"
            THEN [position EXCEPT !.qty_no = @ + qty_delta,
                                  !.cost_no = FAdd(@, cost_delta)]
            ELSE position
    IN  Position(moved)

ClientNames == <<"c1", "c2", "c3", "c4">>
Clients == {ClientNames[i] : i \in 1 .. NumClients}
SystemTasks == {"acc", "eq", "risk", "panic"}
Tasks == Clients \cup SystemTasks

IdleCall ==
    [pc |-> "idle", side |-> "YES", qty_delta |-> 0, cost_delta |-> Dec(0),
     position |-> <<>>, dirty |-> FALSE, read_failed |-> FALSE, depth |-> 0,
     commit |-> 0]

\* entry of update_position_atomic: arguments bound, pipeline opened
begin_update(t, side, qty_delta, cost_delta) ==
    /\ upd[t].pc = "idle"
    /\ upd' = [upd EXCEPT ![t] = [IdleCall EXCEPT !.pc = "watch", !.side = side,
                                   !.qty_delta = qty_delta, !.cost_delta = cost_delta]]

\* await pipe.watch(POSITION_KEY): from here on any write of the key by
\* another connection makes this pipeline's EXEC fail
pipe_watch(t) ==
    /\ upd[t].pc = "watch"
    /\ upd' = [upd EXCEPT ![t].pc = "read", ![t].dirty = FALSE, ![t].position = <<>>]
    /\ UNCHANGED <<store_vars, hist_vars, task_vars>>

\* position = await self.get_position(), then the local arithmetic up to
\* pipe.multi() / pipe.set(...)
pipe_read(t) ==
    /\ upd[t].pc = "read"
    /\ upd' = [upd EXCEPT ![t].pc = "exec", ![t].read_failed = FALSE,
                          ![t].position = <<apply_delta(get_position(redis_position),
                                                       upd[t].side, upd[t].qty_delta,
                                                       upd[t].cost_delta)>>]
    /\ UNCHANGED <<store_vars, hist_vars, task_vars>>

\* an EXEC that commits whatever was written since WATCH
NoWatchError(t) == FALSE

\* EXEC raises WatchError exactly when the watched key was written since WATCH
WatchError(t) == upd[t].dirty

\* a write of the position key flags every other pipeline that watches it
touch_watchers(u, writer) ==
    [x \in Tasks |->
        IF x # writer /\ u[x].pc \in {"read", "exec"}
        THEN [u[x] EXCEPT !.dirty = TRUE]
        ELSE u[x]]

\* await pipe.execute(): commit and return the position, or WatchError and
\* the whole call again (line 150), one call deeper inside the handler of the
\* call that failed; upd[t].depth counts these nested calls
pipe_execute(t) ==
    /\ upd[t].pc = "exec"
    /\ IF WatchError(t)
       THEN /\ upd' = [upd EXCEPT ![t].pc = "watch", ![t].position = <<>>,
                                  ![t].dirty = FALSE, ![t].depth = @ + 1]
            /\ retried' = TRUE
            /\ UNCHANGED <<store_vars, last_commit, side_frame_ok, commits>>
       ELSE LET before == get_position(redis_position)
                after == upd[t].position[1]
                other_kept ==
                    IF upd[t].side = "YES"
                    THEN after.qty_no = before.qty_no /\ after.cost_no = before.cost_no
                    ELSE after.qty_yes = before.qty_yes /\ after.cost_yes = before.cost_yes
            IN  /\ redis_position' = <<after>>
                /\ commits' = commits + 1
                /\ upd' = touch_watchers([upd EXCEPT ![t].pc = "done",
                                                     ![t].commit = commits + 1], t)
                /\ last_commit' = [task |-> t, side |-> upd[t].side,
                                   before |-> before, after |-> after]
                /\ side_frame_ok' = (side_frame_ok /\ other_kept)
                /\ UNCHANGED <<redis_halt, redis_trades, retried>>
    /\ UNCHANGED <<issued, serial, calls, only_buys, task_vars>>

----------------------------------------------------------------------------
(* config.py: the configuration of the run.  trade_size,                   *)
(* min_liquidity_multiplier, profit_margin and bailout_stop_loss_percent   *)
(* are the defaults.  The two caps are read from the environment           *)
(* (MAX_UNHEDGED_DELTA, MAX_POSITION_SIZE; the defaults are 50 and 1000)   *)
(* and are set to two trades here, so that a few orders reach them.        *)

trade_size == 10
\* MAX_UNHEDGED_DELTA of the run
max_unhedged_delta == 20
min_liquidity_multiplier == 3
\* MAX_POSITION_SIZE of the run
max_position_size == 20
\* Decimal("0.02"), in cents
profit_margin == 2
bailout_stop_loss_percent == 2
\* Decimal("0.99"), in cents: the Equalizer's pair-cost ceiling
EQ_CEILING == 99

\* Config.get_profit_target()
get_profit_target == Dec(ONE - profit_margin)

----------------------------------------------------------------------------
(* models/position.py: OrderBook.  One side of the book is a sequence of   *)
(* levels, best first.                                                     *)

Level(price, size) == [price |-> price, size |-> size]

OrderBook(yes_bids, yes_asks, no_bids, no_asks) ==
    [yes_bids |-> yes_bids, yes_asks |-> yes_asks, no_bids |-> no_bids,
     no_asks |-> no_asks]

\* the order books the venue returns: a cheap book, a book with YES cheap and
\* NO expensive, a book with YES expensive and NO at 0.57, a book whose YES asks
\* are thin (28 over the top five levels, 38 over all six), an empty book, and
\* a cheap book whose best NO ask is a level of size zero
Books ==
    {OrderBook(<<Level(30, 100)>>, <<Level(40, 100)>>,
               <<Level(30, 100)>>, <<Level(40, 100)>>),
     OrderBook(<<Level(30, 100)>>, <<Level(40, 100)>>,
               <<Level(60, 100)>>, <<Level(90, 100)>>),
     OrderBook(<<Level(60, 100)>>, <<Level(90, 100)>>,
               <<Level(30, 100)>>, <<Level(57, 100)>>),
     OrderBook(<<Level(30, 100)>>,
               <<Level(40, 20), Level(60, 5), Level(70, 1), Level(80, 1),
                 Level(90, 1), Level(95, 10)>>,
               <<Level(30, 100)>>, <<Level(40, 100)>>),
     OrderBook(<<>>, <<>>, <<>>, <<>>),
     OrderBook(<<Level(30, 100)>>, <<Level(40, 100)>>,
               <<Level(30, 100)>>, <<Level(40, 0)>>)}

\* get_order_book(token_id): the bids of one token
BidSides == {b.yes_bids : b \in Books} \cup {b.no_bids : b \in Books}

\* get_best_ask_yes / get_best_ask_no / get_best_bid_*: <<>> stands for None
get_best(entries) == IF entries = <<>> THEN <<>> ELSE <<Dec(entries[1].price)>>

RECURSIVE SumSizes(_, _)
SumSizes(entries, n) ==
    IF n = 0 \/ entries = <<>> THEN 0
    ELSE entries[1].size + SumSizes(Tail(entries), n - 1)

\* a depth taken over every level of the side
get_depth_all_levels(entries, max_levels) == SumSizes(entries, Len(entries))

\* OrderBook.get_depth(side, bid_or_ask, max_levels) on the chosen side
get_depth(entries, max_levels) == SumSizes(entries, max_levels)

----------------------------------------------------------------------------
(* core/accumulator.py *)

\* Accumulator.calculate_state
calculate_state(position) ==
    LET avg_yes == IF position.qty_yes > 0
                   THEN Frac(position.cost_yes[1], position.cost_yes[2] * position.qty_yes)
                   ELSE Dec(0)
        avg_no == IF position.qty_no > 0
                  THEN Frac(position.cost_no[1], position.cost_no[2] * position.qty_no)
                  ELSE Dec(0)
        pair_cost == FAdd(avg_yes, avg_no)
        paired_qty == Min(position.qty_yes, position.qty_no)
    IN  [avg_yes |-> avg_yes, avg_no |-> avg_no, pair_cost |-> pair_cost,
         delta |-> position.qty_yes - position.qty_no,
         locked_profit |->
             IF paired_qty > 0 /\ FLt(pair_cost, Dec(ONE))
             THEN FMul(Dec(paired_qty), FSub(Dec(ONE), pair_cost))
             ELSE Dec(0)]

\* every ask taken for an opportunity
is_opportunity_unconditional(ask, other_avg) == TRUE

\* the opportunity test of _scan_and_execute (lines 121-135) for buying `side`
\* at `ask` against the average cost of the other side
is_opportunity(ask, other_avg) == FLt(FAdd(ask, other_avg), get_profit_target)

\* _scan_and_execute, lines 95-149: the opportunity it hands to
\* _execute_opportunity, <<>> when it returns without one
select_opportunity(position, yes_asks, no_asks) ==
    IF yes_asks = <<>> \/ no_asks = <<>> THEN <<>>
    ELSE
        LET state_info == calculate_state(position)
            ask_yes == get_best(yes_asks)[1]
            ask_no == get_best(no_asks)[1]
            exp_yes == FAdd(ask_yes, state_info.avg_no)
            exp_no == FAdd(ask_no, state_info.avg_yes)
            opportunity_yes == is_opportunity(ask_yes, state_info.avg_no)
            opportunity_no == is_opportunity(ask_no, state_info.avg_yes)
            yes == [side |-> "YES", price |-> ask_yes, expected_pair_cost |-> exp_yes]
            no == [side |-> "NO", price |-> ask_no, expected_pair_cost |-> exp_no]
        IN  IF ask_yes[1] = 0 \/ ask_no[1] = 0 THEN <<>>
            ELSE IF opportunity_yes /\ opportunity_no
            THEN (IF FLt(exp_yes, exp_no) THEN <<yes>> ELSE <<no>>)
            ELSE IF opportunity_yes THEN <<yes>>
            ELSE IF opportunity_no THEN <<no>>
            ELSE <<>>

\* _check_constraints, lines 220-229: the delta constraint on the snapshot
delta_constraint(side, position) ==
    LET current_delta == position.delta
        new_delta == IF side = "YES" THEN current_delta + trade_size
                     ELSE current_delta - trade_size
    IN  ~(Abs(new_delta) > max_unhedged_delta)

\* _check_constraints, lines 231-244: the liquidity constraint
liquidity_constraint(side, yes_asks, no_asks) ==
    LET opposite_asks == IF side = "YES" THEN no_asks ELSE yes_asks
        required_liquidity == trade_size * min_liquidity_multiplier
        available_liquidity == get_depth(opposite_asks, 5)
    IN  ~(available_liquidity < required_liquidity)

\* a scan that passes every selected opportunity on to execute_trade
check_constraints_skipped(side, position, yes_asks, no_asks) == TRUE

\* Accumulator._check_constraints
check_constraints(side, position, yes_asks, no_asks) ==
    delta_constraint(side, position) /\ liquidity_constraint(side, yes_asks, no_asks)

NoOrder ==
    [by |-> "none", action |-> "BUY", side |-> "YES", price |-> Dec(0), size |-> 0,
     post_only |-> TRUE, opposite_avg |-> Dec(0)]

\* a reader of the halt flag that never finds it set
is_halted_never(value) == FALSE

\* StateManager.is_halted, lines 332-333: the value of gabagool:halt is "1"
is_halted(value) == value = "1"

\* Accumulator.start, lines 48-60: is_running is tested, the halt flag is
\* read, then the clock.  Not running: the loop ends.  Halted: the loop sleeps
\* for a second and starts over.  Within the settlement buffer: the loop ends.
acc_check_halted ==
    /\ acc.pc = "halt"
    /\ acc' = IF ~svc.is_running
              THEN [acc EXCEPT !.pc = "stopped", !.result = "", !.seen = <<>>]
              ELSE IF is_halted(redis_halt)
              THEN [acc EXCEPT !.pc = "paused", !.result = "", !.seen = <<>>]
              ELSE IF within_buffer
              THEN [acc EXCEPT !.pc = "stopped", !.result = "", !.seen = <<>>]
              ELSE [acc EXCEPT !.pc = "scan", !.result = "", !.seen = <<>>]
    /\ UNCHANGED <<store_vars, upd, hist_vars, within_buffer, eq, risk, liq, orders, order_budget,
                   last_order, panics, aux_vars>>

\* StateManager.is_halted, lines 334-336: the GET raised, the error is
\* logged and the answer is False
is_halted_except == FALSE

\* Accumulator.start, lines 48-60, when the GET of is_halted raises
acc_check_halted_except ==
    /\ acc.pc = "halt"
    /\ svc.is_running
    /\ acc' = IF is_halted_except
              THEN [acc EXCEPT !.pc = "paused", !.result = "", !.seen = <<>>]
              ELSE IF within_buffer
              THEN [acc EXCEPT !.pc = "stopped", !.result = "", !.seen = <<>>]
              ELSE [acc EXCEPT !.pc = "scan", !.result = "", !.seen = <<>>]
    /\ UNCHANGED <<store_vars, upd, hist_vars, within_buffer, eq, risk, liq, orders, order_budget,
                   last_order, panics, aux_vars>>

\* Accumulator.start, lines 51-52: asyncio.sleep(1.0) has passed, `continue`
acc_pause ==
    /\ acc.pc = "paused"
    /\ acc' = [acc EXCEPT !.pc = "halt"]
    /\ UNCHANGED <<store_vars, upd, hist_vars, within_buffer, eq, risk, liq, orders, order_budget,
                   last_order, panics, aux_vars>>

\* _scan_and_execute up to the call of place_limit_order: position snapshot,
\* order book (an input of the venue, independent of the store), selection,
\* constraints.  Without a trade the loop sleeps and reads the halt flag again.
\* acc.result records how the scan ended (the debug line of
\* _execute_opportunity, the warning of execute_trade) until the next
\* iteration of the loop begins, acc.seen the order book of a scan that went
\* on to _execute_opportunity, as long as _scan_and_execute holds it.
acc_scan ==
    /\ acc.pc = "scan"
    /\ \E order_book \in Books :
          LET position == get_position(redis_position)
              opp == select_opportunity(position, order_book.yes_asks,
                                        order_book.no_asks)
          IN  acc' = IF opp = <<>> THEN [acc EXCEPT !.pc = "halt"]
                     ELSE IF check_constraints(opp[1].side, position,
                                               order_book.yes_asks,
                                               order_book.no_asks)
                     THEN [acc EXCEPT !.pc = "order", !.side = opp[1].side,
                                      !.price = opp[1].price,
                                      !.seen = <<order_book>>]
                     ELSE [acc EXCEPT !.pc = "halt", !.side = opp[1].side,
                                      !.result = "constraints",
                                      !.seen = <<order_book>>]
    /\ UNCHANGED <<store_vars, upd, hist_vars, within_buffer, eq, risk, liq, orders, order_budget,
                   last_order, panics, aux_vars>>

\* an execute_trade whose order may take liquidity
buy_order_taker(by, side, price, qty, opposite_avg) ==
    [by |-> by, action |-> "BUY", side |-> side, price |-> price, size |-> qty,
     post_only |-> FALSE, opposite_avg |-> opposite_avg]

\* execute_trade, lines 277-283: the order sent for the Accumulator (by = "acc")
\* and, through Equalizer._rebalance_position, for the Equalizer (by = "eq",
\* which also notes the opposite average its price was capped with)
buy_order(by, side, price, qty, opposite_avg) ==
    [by |-> by, action |-> "BUY", side |-> side, price |-> price, size |-> qty,
     post_only |-> TRUE, opposite_avg |-> opposite_avg]

\* RiskEngine._market_sell, lines 277-283: the order of a liquidation leg
sell_order(by, side, price, qty) ==
    [by |-> by, action |-> "SELL", side |-> side, price |-> price, size |-> qty,
     post_only |-> FALSE, opposite_avg |-> Dec(0)]

\* what place_limit_order hands back: an order id, or None
OrderIds == {"", "order-id"}

\* an execute_trade that takes every answer of the venue for an order id
has_order_id_always(order_id) == TRUE

\* execute_trade, line 285: `if not order_id`
has_order_id(order_id) == order_id # ""

\* history: one more order of `by` accepted, counted when the halt flag
\* holds "1" at that moment
accepted_while(halt, by) ==
    IF halt = "1" THEN [halted_orders EXCEPT ![by] = @ + 1] ELSE halted_orders

\* execute_trade, lines 276-295: the venue answers the post-only BUY with an
\* order id or with none; with an id the position update starts, without one
\* execute_trade returns None
acc_place_order ==
    /\ acc.pc = "order"
    /\ \E order_id \in OrderIds :
          IF has_order_id(order_id)
          THEN /\ orders.buy < order_budget.buy
               /\ orders' = [orders EXCEPT !.buy = @ + 1]
               /\ last_order' = buy_order("acc", acc.side, acc.price, trade_size, Dec(0))
               /\ begin_update("acc", acc.side, trade_size,
                               FMul(acc.price, Dec(trade_size)))
               /\ acc' = [acc EXCEPT !.pc = "update", !.seen = <<>>,
                                     !.result = IF order_id = "" THEN "no_order_id"
                                                ELSE "placed"]
               /\ halted_orders' = accepted_while(redis_halt, "acc")
          ELSE /\ acc' = [acc EXCEPT !.pc = "halt", !.seen = <<>>,
                                     !.result = "no_order_id"]
               /\ UNCHANGED <<upd, orders, last_order, halted_orders>>
    /\ UNCHANGED <<store_vars, hist_vars, within_buffer, eq, risk, liq, order_budget,
                   panics, svc, reader>>

\* the trade log keeps the 1000 newest entries (add_trade, line 172)
MAX_TRADES == 1000

\* add_trade, lines 165-169: ZADD of one new member
zadd(n) == n + 1

\* add_trade, line 172: ZREMRANGEBYRANK 0 -1001 removes every member below
\* the 1000 highest scores
zremrangebyrank(n) == Min(n, MAX_TRADES)

\* no get_recent_trades call in progress
ReaderIdle == [pc |-> "idle", limit |-> 0, trades |-> <<>>]

\* execute_trade, lines 297-314, add_trade up to the ZADD: the update has
\* returned, the Trade is built with timestamp = datetime.utcnow(), which is
\* its score in the log, and appended
acc_add_trade ==
    /\ acc.pc = "update"
    /\ upd["acc"].pc = "done"
    /\ redis_trades' = zadd(redis_trades)
    /\ upd' = [upd EXCEPT !["acc"] = IdleCall]
    /\ acc' = [acc EXCEPT !.pc = "trim", !.result = ""]
    /\ UNCHANGED <<redis_position, redis_halt, hist_vars, within_buffer, eq, risk, liq,
                   orders, order_budget, last_order, panics, svc, reader,
                   halted_orders>>

\* add_trade, line 172, and the return of execute_trade: the log is trimmed
acc_trim_trades ==
    /\ acc.pc = "trim"
    /\ redis_trades' = zremrangebyrank(redis_trades)
    /\ acc' = [acc EXCEPT !.pc = "halt"]
    /\ UNCHANGED <<redis_position, redis_halt, upd, hist_vars, within_buffer, eq, risk,
                   liq, orders, order_budget, last_order, panics, aux_vars>>

----------------------------------------------------------------------------
(* core/equalizer.py *)

\* _rebalance_position, line 138: the maximum price, from the snapshot
max_price_of(opposite_avg) == FSub(Dec(EQ_CEILING), opposite_avg)

\* the best ask taken as it is
bid_price_uncapped(best_ask, max_price) == best_ask

\* _rebalance_position, line 145: bid_price = min(best_ask, max_price)
bid_price_of(best_ask, max_price) == FMin(best_ask, max_price)

EqIdle ==
    [pc |-> "halt", side |-> "YES", bid_price |-> Dec(0), remaining |-> 0,
     chunk_size |-> 0, opposite_avg |-> Dec(0)]

\* Equalizer.start, lines 43-48: not running ends the loop, halted means
\* sleep and read the flag again
eq_check_halted ==
    /\ eq.pc = "halt"
    /\ eq' = IF ~svc.is_running THEN [eq EXCEPT !.pc = "stopped"]
              ELSE IF is_halted(redis_halt) THEN eq
              ELSE [eq EXCEPT !.pc = "check"]
    /\ UNCHANGED <<store_vars, upd, hist_vars, within_buffer, acc, risk, liq, orders, order_budget,
                   last_order, panics, aux_vars>>

\* _check_and_rebalance and _rebalance_position up to the chunk loop: position
\* snapshot, the stored market (saved at start), the order book of the lagging
\* side, the price.  The side, the target quantity and the price are fixed here.
\* Equalizer.start, lines 44-52, when the GET of is_halted raises
eq_check_halted_except ==
    /\ eq.pc = "halt"
    /\ svc.is_running
    /\ eq' = IF is_halted_except THEN eq ELSE [eq EXCEPT !.pc = "check"]
    /\ UNCHANGED <<store_vars, upd, hist_vars, within_buffer, acc, risk, liq, orders, order_budget,
                   last_order, panics, aux_vars>>

\* a lagging side that is always YES
lagging_side_yes(delta) == "YES"

\* _check_and_rebalance, lines 92-98: the side with fewer shares
lagging_side_of(delta) == IF delta > 0 THEN "NO" ELSE "YES"

\* a rebalance that goes on whatever its price ceiling
rebalance_plan_no_ceiling(position, order_book) ==
    LET delta == position.delta
        lagging_side == lagging_side_of(delta)
        target_qty == Abs(delta)
        state == calculate_state(position)
        opposite_avg == IF lagging_side = "YES" THEN state.avg_no
                        ELSE state.avg_yes
        best_ask == IF lagging_side = "YES" THEN get_best(order_book.yes_asks)
                    ELSE get_best(order_book.no_asks)
        max_price == max_price_of(opposite_avg)
    IN  IF Abs(delta) < 1 THEN EqIdle
        ELSE IF best_ask = <<>> \/ best_ask[1][1] = 0 THEN EqIdle
        ELSE [pc |-> "order", side |-> lagging_side,
              bid_price |-> bid_price_of(best_ask[1], max_price),
              remaining |-> target_qty,
              chunk_size |-> Min(target_qty, trade_size),
              opposite_avg |-> opposite_avg]

\* _check_and_rebalance, lines 84-102, and _rebalance_position, lines 113-149:
\* what the Equalizer sets out to do on a position and a book, nothing
\* (EqIdle) or the chunk loop with its side, price, quantity and chunk size
rebalance_plan(position, order_book) ==
    LET delta == position.delta
        lagging_side == lagging_side_of(delta)
        target_qty == Abs(delta)
        state == calculate_state(position)
        opposite_avg == IF lagging_side = "YES" THEN state.avg_no
                        ELSE state.avg_yes
        best_ask == IF lagging_side = "YES" THEN get_best(order_book.yes_asks)
                    ELSE get_best(order_book.no_asks)
        max_price == max_price_of(opposite_avg)
    IN  IF Abs(delta) < 1 THEN EqIdle
        ELSE IF best_ask = <<>> \/ best_ask[1][1] = 0 THEN EqIdle
        ELSE IF FLe(max_price, Dec(0)) THEN EqIdle
        ELSE [pc |-> "order", side |-> lagging_side,
              bid_price |-> bid_price_of(best_ask[1], max_price),
              remaining |-> target_qty,
              chunk_size |-> Min(target_qty, trade_size),
              opposite_avg |-> opposite_avg]

eq_check_and_rebalance ==
    /\ eq.pc = "check"
    /\ \E order_book \in Books :
          eq' = rebalance_plan(get_position(redis_position), order_book)
    /\ UNCHANGED <<store_vars, upd, hist_vars, within_buffer, acc, risk, liq, orders, order_budget,
                   last_order, panics, aux_vars>>

\* one pass of the chunk loop (lines 151-168) through Accumulator.execute_trade:
\* without an order id the loop sleeps 0.5 s and, still running, places the
\* same order again
eq_place_order ==
    /\ eq.pc = "order"
    /\ LET trade_qty == Min(eq.remaining, eq.chunk_size)
       IN  \/ /\ eq' = IF svc.is_running THEN eq ELSE EqIdle
              /\ UNCHANGED <<upd, orders, last_order, halted_orders>>
           \/ /\ orders.buy < order_budget.buy
              /\ orders' = [orders EXCEPT !.buy = @ + 1]
              /\ last_order' = buy_order("eq", eq.side, eq.bid_price, trade_qty,
                                         eq.opposite_avg)
              /\ begin_update("eq", eq.side, trade_qty,
                              FMul(eq.bid_price, Dec(trade_qty)))
              /\ eq' = [eq EXCEPT !.pc = "update"]
              /\ halted_orders' = accepted_while(redis_halt, "eq")
    /\ UNCHANGED <<store_vars, hist_vars, within_buffer, acc, risk, liq, order_budget,
                   panics, svc, reader>>

\* execute_trade, lines 297-314, add_trade up to the ZADD, on behalf of the
\* Equalizer
eq_add_trade ==
    /\ eq.pc = "update"
    /\ upd["eq"].pc = "done"
    /\ redis_trades' = zadd(redis_trades)
    /\ upd' = [upd EXCEPT !["eq"] = IdleCall]
    /\ eq' = [eq EXCEPT !.pc = "trim"]
    /\ UNCHANGED <<redis_position, redis_halt, hist_vars, within_buffer, acc, risk, liq,
                   orders, order_budget, last_order, panics, svc, reader,
                   halted_orders>>

\* add_trade, line 172, then _rebalance_position, lines 163-172: the log is
\* trimmed, the chunk is counted, the next chunk follows or the rebalance ends
eq_trim_trades ==
    /\ eq.pc = "trim"
    /\ redis_trades' = zremrangebyrank(redis_trades)
    /\ LET trade_qty == Min(eq.remaining, eq.chunk_size)
           remaining == eq.remaining - trade_qty
       IN  eq' = IF remaining > 0 /\ svc.is_running
                 THEN [eq EXCEPT !.pc = "order", !.remaining = remaining]
                 ELSE EqIdle
    /\ UNCHANGED <<redis_position, redis_halt, upd, hist_vars, within_buffer, acc, risk,
                   liq, orders, order_budget, last_order, panics, aux_vars>>

----------------------------------------------------------------------------
(* core/risk_engine.py *)

\* RiskEngine.check_max_delta
check_max_delta(position) == ~(Abs(position.delta) > max_unhedged_delta)

\* RiskEngine.check_liquidity_depth
check_liquidity_depth(position, yes_asks, no_asks) ==
    LET yes_liquidity == get_depth(yes_asks, 10)
        no_liquidity == get_depth(no_asks, 10)
    IN  /\ ~(yes_liquidity < position.qty_yes)
        /\ ~(no_liquidity < position.qty_no)

\* RiskEngine._get_mid_price: <<>> stands for None
get_mid_price(bids, asks) ==
    IF bids = <<>> \/ asks = <<>> THEN <<>>
    ELSE <<Frac(bids[1].price + asks[1].price, 2)>>

\* a stop-loss that marks the position at the best bids
check_bailout_stop_loss_at_bid(position, yes_bids, yes_asks, no_bids, no_asks) ==
    IF yes_bids = <<>> \/ yes_asks = <<>> \/ no_bids = <<>> \/ no_asks = <<>> THEN FALSE
    ELSE
        LET position_value == FAdd(FMul(Dec(position.qty_yes), Dec(yes_bids[1].price)),
                                   FMul(Dec(position.qty_no), Dec(no_bids[1].price)))
            position_cost == FAdd(position.cost_yes, position.cost_no)
            loss_threshold == FMul(position_cost, Frac(bailout_stop_loss_percent, 100))
        IN  FLt(FSub(position_value, position_cost), FSub(Dec(0), loss_threshold))

\* RiskEngine.check_bailout_stop_loss
check_bailout_stop_loss(position, yes_bids, yes_asks, no_bids, no_asks) ==
    LET mid_yes == get_mid_price(yes_bids, yes_asks)
        mid_no == get_mid_price(no_bids, no_asks)
    IN  IF mid_yes = <<>> \/ mid_no = <<>> THEN FALSE
        ELSE IF mid_yes[1][1] = 0 \/ mid_no[1][1] = 0 THEN FALSE
        ELSE
            LET position_value == FAdd(FMul(Dec(position.qty_yes), mid_yes[1]),
                                       FMul(Dec(position.qty_no), mid_no[1]))
                position_cost == FAdd(position.cost_yes, position.cost_no)
                unrealized_pnl == FSub(position_value, position_cost)
                loss_threshold == FMul(position_cost, Frac(bailout_stop_loss_percent, 100))
            IN  FLt(unrealized_pnl, FSub(Dec(0), loss_threshold))

\* a risk level that puts the settlement buffer before the failed checks
update_risk_level_buffer_first(delta_ok, liquidity_ok, stop_loss, settlement_risk) ==
    IF stop_loss THEN "CRITICAL"
    ELSE IF settlement_risk THEN "MEDIUM"
    ELSE IF ~delta_ok \/ ~liquidity_ok THEN "HIGH"
    ELSE "LOW"

\* RiskEngine._update_risk_level
update_risk_level(delta_ok, liquidity_ok, stop_loss, settlement_risk) ==
    IF stop_loss THEN "CRITICAL"
    ELSE IF ~delta_ok \/ ~liquidity_ok THEN "HIGH"
    ELSE IF settlement_risk THEN "MEDIUM"
    ELSE "LOW"

LiqTasks == {"risk", "panic"}

LiqIdle == [pc |-> "idle", qty_yes |-> 0, qty_no |-> 0]

\* where an emergency liquidation stands: a returned update_position_atomic
\* call lets _market_sell return, and the next leg or the halt follows
LiqAt(l) ==
    IF liq[l].pc = "upd_yes" /\ upd[l].pc = "done"
    THEN (IF liq[l].qty_no > 0 THEN "sell_no" ELSE "set_halt")
    ELSE IF liq[l].pc = "upd_no" /\ upd[l].pc = "done" THEN "set_halt"
    ELSE liq[l].pc

\* a check that acts on the stop-loss alone
after_checks_stop_loss_only(stop_loss_triggered, settlement_risk) ==
    IF stop_loss_triggered THEN "liquidate" ELSE "check"

\* _run_risk_checks, lines 93-102: what the check does with its findings
after_checks(stop_loss_triggered, settlement_risk) ==
    IF stop_loss_triggered THEN "liquidate"
    ELSE IF settlement_risk THEN "set_halt"
    ELSE "check"

\* _run_risk_checks: position, the stored market (saved at start) and the
\* order book are read, the four checks run, risk_level is set and the metrics
\* are written (no task reads them); then emergency liquidation on stop-loss,
\* else the halt flag on settlement risk, else the 5 s sleep.
\* risk.settlement_risk keeps the finding of check_settlement_buffer, and
\* risk.cleared notes that the set_halt_flag(True) which ended the check
\* replaced a "0" written by resume_trading.
risk_run_checks ==
    /\ risk.pc = "check"
    /\ svc.is_running
    /\ \E order_book \in Books :
          LET position == get_position(redis_position)
              delta_risk == check_max_delta(position)
              liquidity_risk == check_liquidity_depth(position, order_book.yes_asks,
                                                      order_book.no_asks)
              stop_loss_triggered ==
                  check_bailout_stop_loss(position, order_book.yes_bids,
                                          order_book.yes_asks, order_book.no_bids,
                                          order_book.no_asks)
              settlement_risk == within_buffer
              level == update_risk_level(delta_risk, liquidity_risk,
                                         stop_loss_triggered, settlement_risk)
          IN  /\ risk' = [pc |-> after_checks(stop_loss_triggered, settlement_risk),
                          risk_level |-> level,
                          settlement_risk |-> settlement_risk,
                          cleared |-> FALSE]
              /\ liq' = IF stop_loss_triggered
                        THEN [liq EXCEPT !["risk"] = [LiqIdle EXCEPT !.pc = "cancel"]]
                        ELSE liq
    /\ UNCHANGED <<store_vars, upd, hist_vars, within_buffer, acc, eq, orders, order_budget,
                   last_order, panics, aux_vars>>

\* _run_risk_checks, lines 100-102: settlement risk without stop-loss
risk_set_halt ==
    /\ risk.pc = "set_halt"
    /\ redis_halt' = "1"
    /\ risk' = [risk EXCEPT !.pc = "check", !.cleared = (redis_halt = "0")]
    /\ UNCHANGED <<redis_position, redis_trades, upd, hist_vars, within_buffer, acc, eq,
                   liq, orders, order_budget, last_order, panics, aux_vars>>

\* the leg emergency_liquidation turns to after the YES leg
AfterYes(qty_no) == IF qty_no > 0 THEN "sell_no" ELSE "set_halt"

\* a liquidation that gives up at the first sell that fails
after_failed_sell_abort(side, qty_no) == "idle"

\* _market_sell has returned without a sale (no bids, no order id, or an
\* exception, which lines 295-296 log and swallow): emergency_liquidation
\* goes on with its next statement
after_failed_sell(side, qty_no) ==
    IF side = "YES" THEN AfterYes(qty_no) ELSE "set_halt"

\* emergency_liquidation, line 213: _cancel_all_orders lists the open orders
\* and cancels them; a failure of the venue is logged and swallowed (lines
\* 253-254), so either outcome hands over to the read of the position
liq_cancel_all_orders(l) ==
    /\ liq[l].pc = "cancel"
    /\ \E cancelled \in BOOLEAN : liq' = [liq EXCEPT ![l].pc = "read"]
    /\ UNCHANGED <<store_vars, upd, hist_vars, within_buffer, acc, eq, risk, orders,
                   order_budget, last_order, panics, aux_vars>>

\* emergency_liquidation, line 216: the position is read; the quantities
\* read are the ones sold
liq_read_position(l) ==
    /\ liq[l].pc = "read"
    /\ LET position == get_position(redis_position)
       IN  liq' = [liq EXCEPT ![l] =
                     [pc |-> IF position.qty_yes > 0 THEN "sell_yes"
                             ELSE AfterYes(position.qty_no),
                      qty_yes |-> position.qty_yes, qty_no |-> position.qty_no]]
    /\ UNCHANGED <<store_vars, upd, hist_vars, within_buffer, acc, eq, risk, orders, order_budget,
                   last_order, panics, aux_vars>>

\* _market_sell: the bids of the token are fetched; without any the sell is
\* given up; else a SELL at the first bid with post_only=False is placed, and
\* with an order id the position update (-qty, -(best_bid * qty)) starts
liq_market_sell(l) ==
    /\ LiqAt(l) \in {"sell_yes", "sell_no"}
    /\ LET side == IF LiqAt(l) = "sell_yes" THEN "YES" ELSE "NO"
           qty == IF side = "YES" THEN liq[l].qty_yes ELSE liq[l].qty_no
           skipped == after_failed_sell(side, liq[l].qty_no)
       IN  \E order_book_data \in BidSides :
              IF order_book_data = <<>>
              THEN /\ liq' = [liq EXCEPT ![l].pc = skipped]
                   /\ upd' = [upd EXCEPT ![l] = IdleCall]
                   /\ UNCHANGED <<orders, last_order>>
              ELSE LET best_bid == Dec(order_book_data[1].price)
                   IN  \/ /\ liq' = [liq EXCEPT ![l].pc = skipped]
                          /\ upd' = [upd EXCEPT ![l] = IdleCall]
                          /\ UNCHANGED <<orders, last_order>>
                       \/ /\ orders.sell < order_budget.sell
                          /\ orders' = [orders EXCEPT !.sell = @ + 1]
                          /\ last_order' = sell_order(l, side, best_bid, qty)
                          /\ upd' = [upd EXCEPT ![l] =
                                       [IdleCall EXCEPT
                                          !.pc = "watch", !.side = side,
                                          !.qty_delta = -qty,
                                          !.cost_delta =
                                              FSub(Dec(0), FMul(best_bid, Dec(qty)))]]
                          /\ liq' = [liq EXCEPT ![l].pc =
                                       IF side = "YES" THEN "upd_yes" ELSE "upd_no"]
    /\ UNCHANGED <<store_vars, hist_vars, within_buffer, acc, eq, risk, order_budget,
                   panics, aux_vars>>

\* emergency_liquidation, line 234: the halt flag is set after the sells; the
\* Risk Engine loop then sleeps, panic_close returns
liq_set_halt(l) ==
    /\ LiqAt(l) = "set_halt"
    /\ redis_halt' = "1"
    /\ liq' = [liq EXCEPT ![l] = LiqIdle]
    /\ upd' = [upd EXCEPT ![l] = IdleCall]
    /\ risk' = IF l = "risk"
               THEN [risk EXCEPT !.pc = "check", !.cleared = (redis_halt = "0")]
               ELSE risk
    /\ UNCHANGED <<redis_position, redis_trades, hist_vars, within_buffer, acc, eq,
                   orders, order_budget, last_order, panics, aux_vars>>

----------------------------------------------------------------------------
(* services/trading_service.py and the clock *)

\* Accumulator.start(market), lines 41-47: the task at the top of its loop
AccStart ==
    [pc |-> "halt", side |-> "YES", price |-> Dec(0), result |-> "", seen |-> <<>>]

\* RiskEngine.__init__ and start: risk_level "LOW", the task at the top of its loop
RiskStart ==
    [pc |-> "check", risk_level |-> "LOW", settlement_risk |-> FALSE,
     cleared |-> FALSE]

\* the task handle is not done()
task_running(pc) == pc \notin {"stopped", "failed", "cancelled"}

\* task.cancel(): CancelledError is raised in the task at the await it is
\* suspended in and runs through every `except Exception`; the pipeline of a
\* position update in progress is dropped by its `async with`
cancel_task(c) ==
    /\ acc' = IF c = "acc" /\ task_running(acc.pc)
              THEN [acc EXCEPT !.pc = "cancelled"] ELSE acc
    /\ eq' = IF c = "eq" /\ task_running(eq.pc)
             THEN [EqIdle EXCEPT !.pc = "cancelled"] ELSE eq
    /\ risk' = IF c = "risk" /\ task_running(risk.pc)
               THEN [risk EXCEPT !.pc = "cancelled"] ELSE risk
    /\ liq' = IF c = "risk" THEN [liq EXCEPT !["risk"] = LiqIdle] ELSE liq
    /\ upd' = [upd EXCEPT ![c] = IdleCall]

\* TradingService.stop, lines 102-123: is_running is cleared in the service
\* and in the three components (their stop() never suspends), then the
\* Accumulator task is cancelled and awaited
stop_service ==
    /\ svc.is_running
    /\ svc.stop = "none"
    /\ svc' = [svc EXCEPT !.is_running = FALSE, !.stop = "eq"]
    /\ cancel_task("acc")
    /\ UNCHANGED <<store_vars, hist_vars, within_buffer, orders, order_budget, last_order,
                   panics, reader, halted_orders>>

\* TradingService.stop, lines 119-125: the next task that is not done is
\* cancelled and awaited (the Equalizer, then the Risk Engine); lines 127-131:
\* after the last one the connections are closed and stop() returns
stop_cancel(c) ==
    /\ c \in {"eq", "risk"}
    /\ svc.stop = c
    /\ svc' = [svc EXCEPT !.stop = IF c = "eq" THEN "risk" ELSE "done"]
    /\ cancel_task(c)
    /\ UNCHANGED <<store_vars, hist_vars, within_buffer, orders, order_budget, last_order,
                   panics, reader, halted_orders>>

Components == {"acc", "eq", "risk"}

\* where the task of a component stands
TaskPc(c) == IF c = "acc" THEN acc.pc ELSE IF c = "eq" THEN eq.pc ELSE risk.pc

\* the task of component c ends with an exception that no handler of its loop
\* catches: task.done() holds and task.exception() returns it
task_fail(c) ==
    /\ svc.failures < MaxFailures
    /\ task_running(TaskPc(c))
    /\ svc' = [svc EXCEPT !.failures = @ + 1]
    /\ acc' = IF c = "acc" THEN [acc EXCEPT !.pc = "failed"] ELSE acc
    /\ eq' = IF c = "eq" THEN [EqIdle EXCEPT !.pc = "failed"] ELSE eq
    /\ risk' = IF c = "risk" THEN [risk EXCEPT !.pc = "failed"] ELSE risk
    /\ liq' = IF c = "risk" THEN [liq EXCEPT !["risk"] = LiqIdle] ELSE liq
    /\ upd' = [upd EXCEPT ![c] = IdleCall]
    /\ UNCHANGED <<store_vars, hist_vars, within_buffer, orders, order_budget, last_order,
                   panics, reader, halted_orders>>

\* a supervisor that restarts nothing
restart_wanted_never(pc) == FALSE

\* _monitor_tasks, lines 181-189: task.done() and task.exception() is not
\* None; a task that returned has no exception, and for a cancelled task
\* exception() raises CancelledError, which is passed over
restart_wanted(pc) == pc = "failed"

\* _monitor_tasks, one pass of its loop (lines 173-191), with _restart_task
\* (lines 197-220, which never suspends): every task that is done with an
\* exception is replaced by a new task of the same coroutine, the Accumulator
\* on self.current_market; then the supervisor sleeps 5 s
monitor_tasks ==
    /\ svc.is_running
    /\ LET restarted == {c \in Components : restart_wanted(TaskPc(c))}
       IN  /\ acc' = IF "acc" \in restarted THEN AccStart ELSE acc
           /\ eq' = IF "eq" \in restarted THEN EqIdle ELSE eq
           /\ risk' = IF "risk" \in restarted THEN [risk EXCEPT !.pc = "check"]
                      ELSE risk
           /\ svc' = [svc EXCEPT !.restarts = @ + Cardinality(restarted)]
    /\ UNCHANGED <<store_vars, upd, hist_vars, within_buffer, liq, orders, order_budget,
                   last_order, panics, reader, halted_orders>>

\* start_trading (POST /api/start), dashboard_api.py lines 345-375: refused
\* while trading_service.is_running holds, otherwise start() is scheduled as
\* a task of the event loop and the request returns
start_trading ==
    /\ ~svc.is_running
    /\ svc.starts < MaxStarts
    /\ svc' = [svc EXCEPT !.starts = @ + 1, !.starting = @ + 1]
    /\ UNCHANGED <<store_vars, upd, hist_vars, within_buffer, acc, eq, risk, liq, orders,
                   order_budget, last_order, panics, reader, halted_orders>>

\* the loops of component c that are running: the one whose task handle the
\* service holds, and those whose handle it has replaced
running_loops(c) == (IF task_running(TaskPc(c)) THEN 1 ELSE 0) + svc.orphans[c]

\* TradingService.start, lines 52-96, a start() whose _select_market returns a
\* market: connect, new Accumulator, Equalizer and RiskEngine objects in place
\* of the ones the service held, is_running set, and three new tasks whose
\* handles replace accumulator_task, equalizer_task and risk_task.  Nothing
\* in start() looks at the handles it replaces: a task that was running
\* under one of them keeps running, with its own component object, whose
\* is_running no later stop() clears.  What such a loop does from then on is
\* not followed here, only that it runs.  A start() that comes to this point
\* while a stop() is between two of its cancellations is not followed either.
start_found ==
    /\ svc.starting > 0
    /\ svc.stop \in {"none", "done"}
    /\ svc' = [svc EXCEPT !.is_running = TRUE, !.stop = "none", !.starting = @ - 1,
                          !.orphans = [c \in Components |-> running_loops(c)]]
    /\ acc' = AccStart
    /\ eq' = EqIdle
    /\ risk' = RiskStart
    /\ liq' = [liq EXCEPT !["risk"] = LiqIdle]
    /\ upd' = [t \in Tasks |-> IF t \in Components THEN IdleCall ELSE upd[t]]
    /\ UNCHANGED <<store_vars, hist_vars, within_buffer, orders, order_budget, last_order,
                   panics, reader, halted_orders>>

\* TradingService.start, lines 66-70: _select_market returns None and start()
\* returns; the component objects were replaced at lines 61-63, the task
\* handles and is_running are as they were
start_no_market ==
    /\ svc.starting > 0
    /\ svc' = [svc EXCEPT !.starting = @ - 1]
    /\ UNCHANGED <<store_vars, upd, hist_vars, within_buffer, acc, eq, risk, liq, orders,
                   order_budget, last_order, panics, reader, halted_orders>>

\* TradingService.start, lines 98-100: connect() or _select_market raises and
\* start() calls stop(), which clears is_running and cancels the task whose
\* handle the service holds, the Accumulator's first (lines 102-123)
start_except ==
    /\ svc.starting > 0
    /\ svc.stop \in {"none", "done"}
    /\ svc' = [svc EXCEPT !.is_running = FALSE, !.stop = "eq", !.starting = @ - 1]
    /\ cancel_task("acc")
    /\ UNCHANGED <<store_vars, hist_vars, within_buffer, orders, order_budget, last_order,
                   panics, reader, halted_orders>>

\* Accumulator._run_loop, lines 48-60, in a loop whose handle was replaced:
\* inside the settlement buffer it clears its own is_running and returns.
\* The loops of the Equalizer and of the Risk Engine have no such exit.
orphan_acc_returns ==
    /\ within_buffer
    /\ svc.orphans["acc"] > 0
    /\ svc' = [svc EXCEPT !.orphans["acc"] = @ - 1]
    /\ UNCHANGED <<store_vars, upd, hist_vars, within_buffer, acc, eq, risk, liq, orders,
                   order_budget, last_order, panics, reader, halted_orders>>

\* TradingService.panic_close (POST /api/panic)
panic_close ==
    /\ panics < MaxPanics
    /\ liq["panic"].pc = "idle"
    /\ panics' = panics + 1
    /\ liq' = [liq EXCEPT !["panic"] = [LiqIdle EXCEPT !.pc = "cancel"]]
    /\ UNCHANGED <<store_vars, upd, hist_vars, within_buffer, acc, eq, risk, orders, order_budget,
                   last_order, aux_vars>>

\* TradingService.halt_trading
halt_trading ==
    /\ redis_halt # "1"
    /\ redis_halt' = "1"
    /\ UNCHANGED <<redis_position, redis_trades, upd, hist_vars, task_vars>>

\* TradingService.resume_trading
resume_trading ==
    /\ redis_halt # "0"
    /\ redis_halt' = "0"
    /\ halted_orders' = [acc |-> 0, eq |-> 0]
    /\ UNCHANGED <<redis_position, redis_trades, upd, hist_vars, within_buffer, acc, eq,
                   risk, liq, orders, order_budget, last_order, panics, svc, reader>>

\* time passes: the market enters its settlement buffer and stays in it
enter_settlement_buffer ==
    /\ ~within_buffer
    /\ within_buffer' = TRUE
    /\ UNCHANGED <<store_vars, upd, hist_vars, acc, eq, risk, liq, orders, order_budget, last_order,
                   panics, aux_vars>>

----------------------------------------------------------------------------
(* K client tasks applying deltas through update_position_atomic *)

\* the (side, qty_delta, price) triples the clients draw from: buys of both
\* sides at several prices and a sell; cost_delta = price * qty_delta
ClientDeltas == {<<"YES", 1, 40>>, <<"YES", 2, 55>>, <<"NO", 2, 45>>, <<"NO", -1, 30>>}

client_call(t) ==
    /\ calls < MaxCalls
    /\ \E d \in ClientDeltas :
          LET side == d[1]
              qty_delta == d[2]
              cost_delta == d[3] * d[2]
          IN  /\ begin_update(t, side, qty_delta, Dec(cost_delta))
              /\ issued' = [issued EXCEPT
                              ![side] = [qty |-> @.qty + qty_delta,
                                         cost |-> @.cost + cost_delta]]
              /\ serial' = apply_delta(serial, side, qty_delta, Dec(cost_delta))
              /\ only_buys' = (only_buys /\ qty_delta > 0 /\ cost_delta >= 0)
    /\ calls' = calls + 1
    /\ UNCHANGED <<store_vars, last_commit, side_frame_ok, retried, commits, task_vars>>

client_return(t) ==
    /\ upd[t].pc = "done"
    /\ upd' = [upd EXCEPT ![t] = IdleCall]
    /\ UNCHANGED <<store_vars, hist_vars, task_vars>>

\* get_position, lines 75-77: any exception of the read (the store is down,
\* the value does not parse) is logged and answered with Position()
get_position_except == EmptyPosition

\* update_position_atomic, line 116, when the GET of get_position raises: the
\* handler of get_position (lines 75-77) answers Position(), and the deltas
\* are added to that
pipe_read_except(t) ==
    /\ upd[t].pc = "read"
    /\ upd' = [upd EXCEPT ![t].pc = "exec", ![t].read_failed = TRUE,
                          ![t].position = <<apply_delta(get_position_except,
                                                       upd[t].side, upd[t].qty_delta,
                                                       upd[t].cost_delta)>>]
    /\ UNCHANGED <<store_vars, hist_vars, task_vars>>

\* update_position_atomic, lines 138-140, when the store is still out of
\* reach after a failed read: SET or EXEC raises an error that is not a
\* WatchError, which leaves update_position_atomic for its caller
pipe_execute_except(t) ==
    /\ upd[t].pc = "exec"
    /\ upd[t].read_failed
    /\ upd' = [upd EXCEPT ![t] = IdleCall]
    /\ UNCHANGED <<store_vars, hist_vars, task_vars>>

\* a call of StateManager.get_position by a client: the read of the key
\* succeeds or fails; upd[t].position holds what the caller gets back and
\* upd[t].read_failed whether the read had failed
client_get_position(t) ==
    /\ upd[t].pc = "idle"
    /\ \E read_ok \in BOOLEAN :
          upd' = [upd EXCEPT ![t] =
                    [IdleCall EXCEPT
                       !.pc = "got",
                       !.position = <<IF read_ok THEN get_position(redis_position)
                                      ELSE get_position_except>>,
                       !.read_failed = ~read_ok]]
    /\ UNCHANGED <<store_vars, hist_vars, task_vars>>

\* the caller has taken the Position
client_got(t) ==
    /\ upd[t].pc = "got"
    /\ upd' = [upd EXCEPT ![t] = IdleCall]
    /\ UNCHANGED <<store_vars, hist_vars, task_vars>>

\* the sequence <<a, a + 1, ..., b>>, empty when a > b
Range(a, b) == [i \in 1 .. (b - a + 1) |-> a + i - 1]

\* ZREVRANGE key start stop on a sorted set of n members, as the reverse ranks
\* of the members returned (0: the highest score).  A negative index counts
\* from the end of the set, a start below the set is 0, a stop beyond it is
\* the last member.
zrevrange(n, start, stop) ==
    LET from_end(i) == IF i < 0 THEN n + i ELSE i
        first == IF from_end(start) < 0 THEN 0 ELSE from_end(start)
        last == IF from_end(stop) >= n THEN n - 1 ELSE from_end(stop)
    IN  IF first > last \/ first >= n THEN <<>> ELSE Range(first, last)

\* get_recent_trades, lines 185-206: ZREVRANGE 0 limit-1, then every member
\* parsed back into the Trade add_trade had written (Decimal and datetime
\* through str and back are exact); a Trade is named by its reverse rank
get_recent_trades(n, limit) == zrevrange(n, 0, limit - 1)

\* GET /api/trades?limit=...: the dashboard asks for the recent trades
reader_get_recent_trades ==
    /\ reader.pc = "idle"
    /\ \E limit \in 0 .. MaxLimit :
          reader' = [pc |-> "got", limit |-> limit,
                     trades |-> get_recent_trades(redis_trades, limit)]
    /\ UNCHANGED <<store_vars, upd, hist_vars, within_buffer, acc, eq, risk, liq, orders,
                   order_budget, last_order, panics, svc, halted_orders>>

\* the response has been sent
reader_return ==
    /\ reader.pc = "got"
    /\ reader' = ReaderIdle
    /\ UNCHANGED <<store_vars, upd, hist_vars, within_buffer, acc, eq, risk, liq, orders,
                   order_budget, last_order, panics, svc, halted_orders>>

\* the state after construction and TradingService.start: every task at the top
\* of its loop, the position key holding one of `stores` (<<>>: no key); the
\* venue accepts `buys` BUY orders and `sells` SELL orders in the run; the
\* trade log, which outlives the runs, holds one of `logs` entries
InitWith(stores, buys, sells, logs) ==
    /\ redis_position \in stores
    /\ redis_halt = "nil"
    /\ redis_trades \in logs
    /\ upd = [t \in Tasks |-> IdleCall]
    /\ last_commit = [task |-> "none", side |-> "YES",
                      before |-> EmptyPosition, after |-> EmptyPosition]
    /\ issued = [s \in Sides |-> [qty |-> 0, cost |-> 0]]
    /\ serial = EmptyPosition
    /\ calls = 0
    /\ only_buys = TRUE
    /\ side_frame_ok = TRUE
    /\ retried = FALSE
    /\ within_buffer = FALSE
    /\ acc = AccStart
    /\ eq = EqIdle
    /\ risk = RiskStart
    /\ liq = [l \in LiqTasks |-> LiqIdle]
    /\ orders = [buy |-> 0, sell |-> 0]
    /\ order_budget = [buy |-> buys, sell |-> sells]
    /\ last_order = NoOrder
    /\ panics = 0
    /\ commits = 0
    /\ svc = [is_running |-> TRUE, stop |-> "none", failures |-> 0, restarts |-> 0,
              starts |-> 0, starting |-> 0, orphans |-> [c \in Components |-> 0]]
    /\ reader = ReaderIdle
    /\ halted_orders = [acc |-> 0, eq |-> 0]

NextStore ==
    \E t \in Clients :
        \/ client_call(t)
        \/ pipe_watch(t)
        \/ pipe_read(t)
        \/ pipe_execute(t)
        \/ client_return(t)

SpecStore == InitWith({<<>>}, 0, 0, {0}) /\ [][NextStore]_vars

\* clients that update the position on a store whose reads can fail
NextFault ==
    \/ NextStore
    \/ \E t \in Clients : pipe_read_except(t)
    \/ \E t \in Clients : pipe_execute_except(t)

SpecFault == InitWith({<<>>}, 0, 0, {0}) /\ [][NextFault]_vars

\* clients that update the position and clients that read it, on a store
\* whose reads can fail
NextRead ==
    \/ NextStore
    \/ \E t \in Clients : client_get_position(t)
    \/ \E t \in Clients : client_got(t)

SpecRead == InitWith({<<>>}, 0, 0, {0}) /\ [][NextRead]_vars

\* the Accumulator and the Equalizer, with the market outside its settlement
\* buffer and the halt flag never set
NextTrade ==
    \/ acc_check_halted
    \/ acc_scan
    \/ acc_place_order
    \/ acc_add_trade
    \/ acc_trim_trades
    \/ eq_check_halted
    \/ eq_check_and_rebalance
    \/ eq_place_order
    \/ eq_add_trade
    \/ eq_trim_trades
    \/ \E t \in {"acc", "eq"} : pipe_watch(t)
    \/ \E t \in {"acc", "eq"} : pipe_read(t)
    \/ \E t \in {"acc", "eq"} : pipe_execute(t)

SpecTrade == InitWith({<<>>}, MaxOrders, 0, {0}) /\ [][NextTrade]_vars

\* the Accumulator, the Risk Engine and panic_close, with the market outside its
\* settlement buffer and nobody resuming after a halt
NextRisk ==
    \/ acc_check_halted
    \/ acc_pause
    \/ acc_scan
    \/ acc_place_order
    \/ acc_add_trade
    \/ acc_trim_trades
    \/ risk_run_checks
    \/ \E l \in LiqTasks : liq_cancel_all_orders(l)
    \/ \E l \in LiqTasks : liq_read_position(l)
    \/ \E l \in LiqTasks : liq_market_sell(l)
    \/ \E l \in LiqTasks : liq_set_halt(l)
    \/ \E t \in {"acc", "risk", "panic"} : pipe_watch(t)
    \/ \E t \in {"acc", "risk", "panic"} : pipe_read(t)
    \/ \E t \in {"acc", "risk", "panic"} : pipe_execute(t)
    \/ panic_close

SpecRisk == InitWith({<<>>}, MaxRiskBuys, MaxRiskSells, {0}) /\ [][NextRisk]_vars

\* positions a restarted service finds in the store, each left there by earlier
\* trades: one-sided; balanced at 0.40 + 0.40; balanced at 0.45 + 0.50;
\* balanced at 0.40 + 0.59 (the NO leg bought by the Equalizer at its ceiling);
\* both legs sold, NO bought at 0.90 and sold at 0.30
StoredPositions ==
    {Position([PositionDefaults EXCEPT !.qty_yes = 10, !.cost_yes = Dec(400)]),
     Position([PositionDefaults EXCEPT !.qty_yes = 10, !.cost_yes = Dec(400),
                                       !.qty_no = 10, !.cost_no = Dec(400)]),
     Position([PositionDefaults EXCEPT !.qty_yes = 10, !.cost_yes = Dec(450),
                                       !.qty_no = 10, !.cost_no = Dec(500)]),
     Position([PositionDefaults EXCEPT !.qty_yes = 20, !.cost_yes = Dec(800),
                                       !.qty_no = 20, !.cost_no = Dec(1180)]),
     Position([PositionDefaults EXCEPT !.cost_no = Dec(600)])}

\* the Accumulator alone, started on an empty store or on a stored position:
\* every buy is decided on the position it is applied to
NextOpp ==
    \/ acc_check_halted
    \/ acc_scan
    \/ acc_place_order
    \/ acc_add_trade
    \/ acc_trim_trades
    \/ pipe_watch("acc")
    \/ pipe_read("acc")
    \/ pipe_execute("acc")

SpecOpp ==
    InitWith({<<>>} \cup {<<p>> : p \in StoredPositions}, MaxOppOrders, 0, {0})
        /\ [][NextOpp]_vars

\* the Accumulator and a dashboard that reads the recent trades, on a store
\* whose trade log holds up to MaxLogged entries of earlier runs
NextHistory ==
    \/ NextOpp
    \/ reader_get_recent_trades
    \/ reader_return

SpecHistory ==
    InitWith({<<>>}, MaxOppOrders, 0, 0 .. MaxLogged) /\ [][NextHistory]_vars

\* the Accumulator, the Equalizer and a shutdown of the service
NextStop ==
    \/ NextTrade
    \/ stop_service
    \/ \E c \in {"eq", "risk"} : stop_cancel(c)

SpecStop == InitWith({<<>>}, MaxStopBuys, 0, {0}) /\ [][NextStop]_vars

\* the Accumulator, the Equalizer and one panic close, on a store whose
\* trade log is one entry short of its limit
NextVenue ==
    \/ acc_check_halted
    \/ acc_pause
    \/ acc_scan
    \/ acc_place_order
    \/ acc_add_trade
    \/ acc_trim_trades
    \/ eq_check_halted
    \/ eq_check_and_rebalance
    \/ eq_place_order
    \/ eq_add_trade
    \/ eq_trim_trades
    \/ panic_close
    \/ liq_cancel_all_orders("panic")
    \/ liq_read_position("panic")
    \/ liq_market_sell("panic")
    \/ liq_set_halt("panic")
    \/ \E t \in {"acc", "eq", "panic"} : pipe_watch(t)
    \/ \E t \in {"acc", "eq", "panic"} : pipe_read(t)
    \/ \E t \in {"acc", "eq", "panic"} : pipe_execute(t)

SpecVenue ==
    InitWith({<<>>}, MaxVenueBuys, MaxVenueSells, {MAX_TRADES - 1})
        /\ [][NextVenue]_vars

\* the Risk Engine, panic closes, the halt and resume controls and the
\* clock, on a store that holds a position
NextGuard ==
    \/ risk_run_checks
    \/ risk_set_halt
    \/ \E l \in LiqTasks : liq_cancel_all_orders(l)
    \/ \E l \in LiqTasks : liq_read_position(l)
    \/ \E l \in LiqTasks : liq_market_sell(l)
    \/ \E l \in LiqTasks : liq_set_halt(l)
    \/ \E t \in LiqTasks : pipe_watch(t)
    \/ \E t \in LiqTasks : pipe_read(t)
    \/ \E t \in LiqTasks : pipe_execute(t)
    \/ panic_close
    \/ halt_trading
    \/ resume_trading
    \/ enter_settlement_buffer

\* the stored positions with 10 YES bought at 0.40, alone or hedged by 10 NO
HeldPositions == {p \in StoredPositions : p.cost_yes = Dec(400)}

SpecGuard ==
    InitWith({<<p>> : p \in HeldPositions}, 0, MaxRiskSells, {0})
        /\ [][NextGuard]_vars

\* the position an Accumulator buy leaves when a buy of the Equalizer commits
\* between its scan and its update: 40 YES and 10 NO, all bought at 0.40,
\* the delta past MAX_UNHEDGED_DELTA
OverDeltaPosition ==
    Position([PositionDefaults EXCEPT !.qty_yes = 40, !.cost_yes = Dec(1600),
                                      !.qty_no = 10, !.cost_no = Dec(400)])

\* the Risk Engine as in SpecGuard, started also on the position past the
\* delta limit
SpecLevel ==
    InitWith({<<p>> : p \in HeldPositions \cup {OverDeltaPosition}}, 0,
             MaxRiskSells, {0})
        /\ [][NextGuard]_vars

\* the Accumulator and the Equalizer with the halt control, on a store whose
\* reads of the halt flag can fail
NextBlind ==
    \/ NextTrade
    \/ acc_pause
    \/ halt_trading
    \/ acc_check_halted_except
    \/ eq_check_halted_except

SpecBlind == InitWith({<<>>}, MaxHaltBuys, 0, {0}) /\ [][NextBlind]_vars

\* the Accumulator, one panic close and the resume control, on an empty store
NextCycle ==
    \/ NextOpp
    \/ acc_pause
    \/ panic_close
    \/ liq_cancel_all_orders("panic")
    \/ liq_read_position("panic")
    \/ liq_market_sell("panic")
    \/ liq_set_halt("panic")
    \/ pipe_watch("panic")
    \/ pipe_read("panic")
    \/ pipe_execute("panic")
    \/ resume_trading

SpecCycle ==
    InitWith({<<>>}, MaxCycleBuys, MaxCycleSells, {0})
        /\ [][NextCycle]_vars

\* the loop of the Accumulator at a venue that accepts no order: every buy
\* comes back without an order id, so no update and no trade record follows
AccLoop ==
    \/ acc_check_halted
    \/ acc_pause
    \/ acc_scan
    \/ acc_place_order

\* the Accumulator, the halt control and the clock
NextLive ==
    \/ AccLoop
    \/ halt_trading
    \/ enter_settlement_buffer

\* the event loop of asyncio runs every task that is ready: the Accumulator,
\* whose awaits all return (sleeps, store and venue calls), always gets its
\* next step.  Nothing obliges an operator to halt, or the clock to reach the
\* buffer.
SpecLive ==
    InitWith({<<>>} \cup {<<p>> : p \in StoredPositions}, 0, 0, {0})
        /\ [][NextLive]_vars /\ WF_vars(AccLoop)

\* the Accumulator with the halt and resume controls
NextPause ==
    \/ NextOpp
    \/ acc_pause
    \/ halt_trading
    \/ resume_trading

SpecPause ==
    InitWith({<<>>} \cup {<<p>> : p \in StoredPositions}, MaxOppOrders, 0, {0})
        /\ [][NextPause]_vars

\* positions the Equalizer finds besides the stored ones: 20 YES bought at
\* 0.40 and nothing against them (two Accumulator buys), 10 YES left at an
\* average of 1.00 (YES bought at 0.40 and at 0.90 around a liquidation that
\* sold 10 of them at 0.30), and 10 NO bought at 0.40
UnhedgedPositions ==
    {Position([PositionDefaults EXCEPT !.qty_yes = 20, !.cost_yes = Dec(800)]),
     Position([PositionDefaults EXCEPT !.qty_yes = 10, !.cost_yes = Dec(1000)]),
     Position([PositionDefaults EXCEPT !.qty_no = 10, !.cost_no = Dec(400)])}

\* the Equalizer alone, with the halt control: no other task changes the
\* position
NextEq ==
    \/ eq_check_halted
    \/ eq_check_and_rebalance
    \/ eq_place_order
    \/ eq_add_trade
    \/ eq_trim_trades
    \/ pipe_watch("eq")
    \/ pipe_read("eq")
    \/ pipe_execute("eq")
    \/ halt_trading

SpecEq ==
    InitWith({<<p>> : p \in StoredPositions \cup UnhedgedPositions}, MaxEqBuys, 0, {0})
        /\ [][NextEq]_vars

\* the three loops at a venue that accepts no order, tasks that fail, the
\* supervisor, the clock and a shutdown
NextSuper ==
    \/ AccLoop
    \/ eq_check_halted
    \/ eq_check_and_rebalance
    \/ risk_run_checks
    \/ risk_set_halt
    \/ enter_settlement_buffer
    \/ \E c \in Components : task_fail(c)
    \/ monitor_tasks
    \/ stop_service
    \/ \E c \in {"eq", "risk"} : stop_cancel(c)

\* _monitor_tasks is a coroutine of the event loop like the three tasks: its
\* sleep of 5 s ends and its next pass runs.  Nothing obliges a task to fail
\* or the service to be stopped.
SpecSuper ==
    InitWith({<<>>}, 0, 0, {0}) /\ [][NextSuper]_vars /\ WF_vars(monitor_tasks)

\* the supervised service with POST /api/start: requests made after a stop()
\* (is_running is FALSE from the construction of the service to the first
\* start() that selects a market, and again from stop() on)
NextStart ==
    \/ NextSuper
    \/ start_trading
    \/ start_found
    \/ start_no_market
    \/ start_except
    \/ orphan_acc_returns

SpecStart ==
    InitWith({<<>>}, 0, 0, {0}) /\ [][NextStart]_vars

\* the trading service after start(): the three loops and the control surface
Next ==
    \/ acc_check_halted
    \/ acc_pause
    \/ acc_scan
    \/ acc_place_order
    \/ acc_add_trade
    \/ acc_trim_trades
    \/ eq_check_halted
    \/ eq_check_and_rebalance
    \/ eq_place_order
    \/ eq_add_trade
    \/ eq_trim_trades
    \/ risk_run_checks
    \/ risk_set_halt
    \/ \E l \in LiqTasks : liq_cancel_all_orders(l)
    \/ \E l \in LiqTasks : liq_read_position(l)
    \/ \E l \in LiqTasks : liq_market_sell(l)
    \/ \E l \in LiqTasks : liq_set_halt(l)
    \/ \E t \in SystemTasks : pipe_watch(t)
    \/ \E t \in SystemTasks : pipe_read(t)
    \/ \E t \in SystemTasks : pipe_execute(t)
    \/ panic_close
    \/ halt_trading
    \/ resume_trading
    \/ enter_settlement_buffer

Spec == InitWith({<<>>}, MaxOrders, MaxRiskSells, {0}) /\ [][Next]_vars

ClientsIdle == \A t \in Clients : upd[t].pc = "idle"

\* C1: when every concurrent update_position_atomic call has returned, the
\* stored position equals the position obtained by applying the same deltas
\* one after the other: no delta is lost or applied twice.
C1_Linearizable ==
    ClientsIdle => get_position(redis_position) = serial

\* C1 witness: two calls overlapped, one of them hit a WatchError and retried,
\* and all calls have returned.
C1_Witness ==
    /\ ClientsIdle
    /\ calls = MaxCalls
    /\ retried
    /\ last_commit.task \in Clients
    /\ get_position(redis_position).qty_yes # 0
    /\ get_position(redis_position).qty_no # 0

\* C2: every position committed by an Accumulator trade has |delta| within
\* max_unhedged_delta, in every interleaving.
C2_AccumulatorDeltaCap ==
    last_commit.task = "acc" => Abs(last_commit.after.delta) <= max_unhedged_delta

\* C3: the stored position never has a negative quantity on either side.
C3_QtyNonNegative ==
    /\ get_position(redis_position).qty_yes >= 0
    /\ get_position(redis_position).qty_no >= 0

\* C4: the stored position never has a negative cost on either side.
C4_CostNonNegative ==
    /\ FLe(Dec(0), get_position(redis_position).cost_yes)
    /\ FLe(Dec(0), get_position(redis_position).cost_no)

\* C5: the stored quantity of either leg never exceeds max_position_size.
C5_PositionSizeCeiling ==
    /\ get_position(redis_position).qty_yes <= max_position_size
    /\ get_position(redis_position).qty_no <= max_position_size

\* C6 as stated: a buy the Accumulator executes on a position with pair_cost
\* below 1 leaves pair_cost at or below 1 - profit_margin.
C6_PostTradePairCost ==
    (last_commit.task = "acc" /\ FLt(last_commit.before.pair_cost, Dec(ONE))) =>
        FLe(last_commit.after.pair_cost, get_profit_target)

\* a leg holds shares, or holds none and carries no cost
LegSound(qty, cost) == qty > 0 \/ (qty = 0 /\ cost = Dec(0))

\* C6: a buy the Accumulator executes because its opportunity condition held,
\* on a position with pair_cost at or below 1 - profit_margin whose legs each
\* hold shares or are empty at zero cost, leaves pair_cost at or below
\* 1 - profit_margin.
C6_PostTradeWithinTarget ==
    (/\ last_commit.task = "acc"
     /\ FLe(last_commit.before.pair_cost, get_profit_target)
     /\ LegSound(last_commit.before.qty_yes, last_commit.before.cost_yes)
     /\ LegSound(last_commit.before.qty_no, last_commit.before.cost_no)) =>
        FLe(last_commit.after.pair_cost, get_profit_target)

\* C6 witness: on the position balanced at 0.40 + 0.40 the Accumulator bought
\* NO at 0.57 (0.57 + 0.40 < 0.98); pair_cost went from 0.80 to 0.885
C6_Witness ==
    /\ last_commit.task = "acc"
    /\ last_commit.side = "NO"
    /\ last_commit.before.qty_yes = 10
    /\ last_commit.before.pair_cost = Dec(80)
    /\ last_commit.after.pair_cost = Frac(177, 2)

\* the order the Equalizer is about to place, or has had accepted, keeps
\* bid_price + opposite_avg at or below 0.99
C7_Ceiling ==
    /\ eq.pc = "order" => FLe(FAdd(eq.bid_price, eq.opposite_avg), Dec(EQ_CEILING))
    /\ last_order.by = "eq" =>
          FLe(FAdd(last_order.price, last_order.opposite_avg), Dec(EQ_CEILING))

\* a rebalance that ends with an order to place took opposite_avg from the
\* non-lagging side of the position it read and priced the order at
\* min(best ask of the lagging side, 0.99 - opposite_avg)
C7_Price ==
    (eq.pc = "check" /\ eq'.pc = "order") =>
        LET position == get_position(redis_position)
        IN  /\ eq'.side = IF position.delta > 0 THEN "NO" ELSE "YES"
            /\ eq'.opposite_avg = IF eq'.side = "YES" THEN position.avg_no
                                  ELSE position.avg_yes
            /\ \E order_book \in Books :
                  LET asks == IF eq'.side = "YES" THEN order_book.yes_asks
                              ELSE order_book.no_asks
                  IN  /\ asks # <<>>
                      /\ eq'.bid_price =
                            FMin(Dec(asks[1].price),
                                 FSub(Dec(EQ_CEILING), eq'.opposite_avg))

C8_EqualizerKeepsPairCost ==
    (last_commit.task = "eq" /\ FLt(last_commit.before.pair_cost, Dec(ONE))) =>
        FLt(last_commit.after.pair_cost, Dec(ONE))

\* C9: after any sequence of buys applied from the empty position, each side's
\* quantity is the sum of the quantities bought on it and its cost the sum of
\* price * quantity, and no buy has changed the primaries of the other side.
C9_BuysAccumulate ==
    (ClientsIdle /\ only_buys) =>
        /\ get_position(redis_position).qty_yes = issued["YES"].qty
        /\ get_position(redis_position).cost_yes = Dec(issued["YES"].cost)
        /\ get_position(redis_position).qty_no = issued["NO"].qty
        /\ get_position(redis_position).cost_no = Dec(issued["NO"].cost)
        /\ side_frame_ok

\* C9 witness: buys of both sides, YES bought at two different prices
C9_Witness ==
    /\ ClientsIdle
    /\ only_buys
    /\ calls = MaxCalls
    /\ issued["YES"].qty = 3
    /\ issued["YES"].cost = 150
    /\ issued["NO"].qty = 2

\* the derived fields as functions of the primaries of p: avg_S = cost_S / qty_S
\* when qty_S > 0 and 0 otherwise, pair_cost = avg_yes + avg_no,
\* delta = qty_yes - qty_no, locked_profit = min(qty) * max(0, 1 - pair_cost)
DerivedFromPrimaries(p) ==
    LET avg_yes == IF p.qty_yes > 0 THEN Frac(p.cost_yes[1], p.cost_yes[2] * p.qty_yes)
                   ELSE Dec(0)
        avg_no == IF p.qty_no > 0 THEN Frac(p.cost_no[1], p.cost_no[2] * p.qty_no)
                  ELSE Dec(0)
        pair_cost == FAdd(avg_yes, avg_no)
        room == IF FLt(pair_cost, Dec(ONE)) THEN FSub(Dec(ONE), pair_cost) ELSE Dec(0)
    IN  /\ p.avg_yes = avg_yes
        /\ p.avg_no = avg_no
        /\ p.pair_cost = pair_cost
        /\ p.delta = p.qty_yes - p.qty_no
        /\ p.locked_profit = FMul(Dec(Min(p.qty_yes, p.qty_no)), room)

\* C10: every Position returned by get_position or by update_position_atomic
\* has its derived fields equal to the functions of its own primaries.
C10_DerivedFields ==
    /\ DerivedFromPrimaries(get_position(redis_position))
    /\ \A t \in Tasks : upd[t].pc = "done" => DerivedFromPrimaries(upd[t].position[1])

\* the selection with the tie broken in favour of YES: the candidate with the
\* lower expected pair cost, YES when the two are equal
select_yes_on_tie(position, yes_asks, no_asks) ==
    IF yes_asks = <<>> \/ no_asks = <<>> THEN <<>>
    ELSE
        LET state_info == calculate_state(position)
            ask_yes == Dec(yes_asks[1].price)
            ask_no == Dec(no_asks[1].price)
            exp_yes == FAdd(ask_yes, state_info.avg_no)
            exp_no == FAdd(ask_no, state_info.avg_yes)
            yes_ok == FLt(exp_yes, get_profit_target)
            no_ok == FLt(exp_no, get_profit_target)
        IN  IF yes_ok /\ no_ok
            THEN (IF FLe(exp_yes, exp_no) THEN <<"YES", ask_yes>> ELSE <<"NO", ask_no>>)
            ELSE IF yes_ok THEN <<"YES", ask_yes>>
            ELSE IF no_ok THEN <<"NO", ask_no>>
            ELSE <<>>

\* a scan that ends with an order to place has chosen, on some book the venue
\* returns, the candidate select_yes_on_tie names
C11_Step ==
    (acc.pc = "scan" /\ acc'.pc = "order") =>
        \E order_book \in Books :
            select_yes_on_tie(get_position(redis_position), order_book.yes_asks,
                              order_book.no_asks) = <<acc'.side, acc'.price>>

\* C11: with both opportunities present the Accumulator selects the one with
\* the lower expected pair cost, and YES when the two are equal.
C11_LowerCostYesOnTie == [][C11_Step]_vars

\* the scan of the Accumulator: an order goes out only for the selected
\* opportunity and only when that one passes both constraints; a scan that
\* ends without an order leaves the store, the pending updates and the orders
\* as they were
C12_Step ==
    /\ (acc.pc = "scan" /\ acc'.pc = "order") =>
           \E order_book \in Books :
              LET position == get_position(redis_position)
                  opp == select_opportunity(position, order_book.yes_asks,
                                            order_book.no_asks)
              IN  /\ opp # <<>>
                  /\ opp[1].side = acc'.side
                  /\ opp[1].price = acc'.price
                  /\ delta_constraint(opp[1].side, position)
                  /\ liquidity_constraint(opp[1].side, order_book.yes_asks,
                                          order_book.no_asks)
    /\ (acc.pc = "scan" /\ acc'.pc = "halt") =>
           /\ UNCHANGED <<store_vars, upd, orders, last_order>>
           /\ acc'.result = "constraints" =>
                  LET position == get_position(redis_position)
                      order_book == acc'.seen[1]
                  IN  ~ (/\ delta_constraint(acc'.side, position)
                         /\ liquidity_constraint(acc'.side, order_book.yes_asks,
                                                 order_book.no_asks))

\* C12: when the selected opportunity fails the delta or the liquidity
\* constraint the Accumulator places no order and changes no state on that
\* scan, also when the other side is an opportunity that would pass.
C12_NoFallThrough == [][C12_Step]_vars

\* a scan has just ended on the constraints of the selected side while the
\* other side was an opportunity too and passed both of its constraints
C12_Witness ==
    /\ acc.pc = "halt"
    /\ acc.result = "constraints"
    /\ LET position == get_position(redis_position)
           order_book == acc.seen[1]
           state_info == calculate_state(position)
           other == Other(acc.side)
           other_ask == IF other = "YES" THEN get_best(order_book.yes_asks)[1]
                        ELSE get_best(order_book.no_asks)[1]
           other_avg == IF other = "YES" THEN state_info.avg_no
                        ELSE state_info.avg_yes
       IN  /\ is_opportunity(other_ask, other_avg)
           /\ check_constraints(other, position, order_book.yes_asks,
                                order_book.no_asks)
           /\ orders.buy < order_budget.buy

\* a buy the venue gave no order id for: no update of the position is begun
C13_NoUpdate ==
    acc.result = "no_order_id" => acc.pc = "halt" /\ upd["acc"] = IdleCall

\* the step that gets no order id leaves the stored position, the trade log
\* and the order counters as they were
C13_Step ==
    (acc.pc = "order" /\ acc'.result = "no_order_id") =>
        UNCHANGED <<redis_position, redis_trades, upd, orders, last_order>>

\* C13: when the venue returns no order id for a buy, execute_trade leaves
\* the stored position and the trade log unchanged and returns no trade.
C13_RejectedBuyLeavesNoTrace == [](C13_NoUpdate) /\ [][C13_Step]_vars

\* a buy has just come back without an order id, with a position stored
C13_Witness ==
    /\ acc.result = "no_order_id"
    /\ redis_position # <<>>
    /\ get_position(redis_position).qty_yes > 0
    /\ orders.buy < order_budget.buy

\* C14: every order of the Accumulator or the Equalizer is a BUY with
\* post_only = true; an order with post_only = false comes only from an
\* emergency liquidation of the Risk Engine and is a SELL.
C14_OrderKinds ==
    /\ last_order.by \in {"acc", "eq"} =>
           last_order.action = "BUY" /\ last_order.post_only
    /\ (last_order.by # "none" /\ ~last_order.post_only) =>
           last_order.by \in LiqTasks /\ last_order.action = "SELL"

\* the Accumulator and then the Equalizer have bought, the Equalizer's update
\* is the last one committed, and the order accepted last is the taker SELL
\* of a liquidation
C14_Witness ==
    /\ orders.buy = MaxVenueBuys
    /\ last_commit.task = "eq"
    /\ last_order.by = "panic"
    /\ last_order.action = "SELL"
    /\ ~last_order.post_only

\* C15: the trade log never holds more than 1,000 entries, in any reachable
\* state: also between the append and the trim of add_trade, and while
\* several tasks append.
C15_LogAtMostThousand == redis_trades <= MAX_TRADES

\* how far an emergency liquidation has come
LiqRank(at) ==
    CASE at = "cancel" -> 1
      [] at = "read" -> 2
      [] at = "sell_yes" -> 3
      [] at = "upd_yes" -> 4
      [] at = "sell_no" -> 5
      [] at = "upd_no" -> 6
      [] at = "set_halt" -> 7
      [] OTHER -> 8

\* a liquidation only moves forward (no leg is entered twice), and it ends
\* from set_halt_flag(True) alone, with the halt flag holding "1"
C16_Step ==
    \A l \in LiqTasks :
        LET a == LiqAt(l)
            b == LiqAt(l)'
        IN  a # b =>
               \/ a = "idle" /\ b = "cancel"
               \/ /\ a # "idle"
                  /\ LiqRank(b) > LiqRank(a)
                  /\ b = "idle" => (a = "set_halt" /\ redis_halt' = "1")

C17_Step ==
    (risk' # risk /\ risk'.pc = "check" /\ risk'.settlement_risk) =>
        redis_halt' = "1"

C18_LoopTerminates == within_buffer ~> (acc.pc = "stopped")

\* what get_position hands to its caller is the position stored at the time
\* of the call
C19_Step ==
    \A t \in Clients :
        (upd[t].pc = "idle" /\ upd'[t].pc = "got") =>
            upd'[t].position = <<get_position(redis_position)>>

\* C19: when the read of the store fails get_position reports the failure to
\* its caller; it never returns a Position that differs from the stored one.
C19_NoWrongPosition == [][C19_Step]_vars

\* C20: the retries of one update_position_atomic call nest to a fixed depth
\* at most, whatever the contention: here, to less than the number of
\* commits of other callers that the run has room for.
C20_RetryDepthBounded == \A t \in Tasks : upd[t].depth < MaxCalls - 1

\* the task that builds its Trade in this step, "" when none does
Stamping ==
    IF acc.pc = "update" /\ acc'.pc = "trim" THEN "acc"
    ELSE IF eq.pc = "update" /\ eq'.pc = "trim" THEN "eq"
    ELSE ""

\* a Trade is built, and takes its timestamp, only when no position update
\* committed before its own is still without its Trade: such a Trade would
\* get the later timestamp and so the later place in the log
C21_Step ==
    \A x, y \in {"acc", "eq"} :
        (Stamping = x /\ y # x /\ upd[y].pc = "done") => upd[x].commit < upd[y].commit

\* C21: the order of the trades in the log (by timestamp score, as
\* get_recent_trades returns them newest first) is the order in which their
\* position updates were committed, for trades of different tasks as for the
\* trades of one task.
C21_LogOrderIsCommitOrder == [][C21_Step]_vars

\* C22: get_recent_trades(limit) returns at most limit trades, the newest
\* first, for every limit >= 0, limit = 0 included, and every content of the
\* trade log.
C22_AtMostLimitNewestFirst ==
    reader.pc = "got" =>
        /\ Len(reader.trades) <= reader.limit
        /\ \A i \in 1 .. Len(reader.trades) : reader.trades[i] = i - 1
\* C23: after stop() has returned every order the venue accepted has had its
\* position update committed: a task that stop() finds between an accepted
\* order and the update for it finishes that update before it exits.
C23_StopFinishesUpdates ==
    svc.stop = "done" => commits = orders.buy + orders.sell
\* the asks of `side` in an order book
AsksOf(order_book, side) ==
    IF side = "YES" THEN order_book.yes_asks ELSE order_book.no_asks

\* a scan goes on to place an order only on a book that has asks on both
\* sides and whose best ask on the side to buy has a size above zero; a scan
\* that places no order leaves the store, the pending updates and the orders
\* as they were
C24_Step ==
    /\ (acc.pc = "scan" /\ acc'.pc = "order") =>
           LET order_book == acc'.seen[1]
           IN  /\ order_book.yes_asks # <<>>
               /\ order_book.no_asks # <<>>
               /\ AsksOf(order_book, acc'.side)[1].size > 0
    /\ (acc.pc = "scan" /\ acc'.pc = "halt") =>
           UNCHANGED <<store_vars, upd, orders, last_order>>

\* C24: on malformed market data the Accumulator skips the tick with no
\* state change and no order: when the YES or the NO asks are missing, and
\* when the best ask level of the side to buy has size zero.
C24_MalformedBookSkipped == [][C24_Step]_vars
\* the task of component c is done with an error while the service runs
FailedWhileRunning(c) == TaskPc(c) = "failed" /\ svc.is_running

\* a task leaves "failed" through a restart by the supervisor alone, and a
\* task that returned or was cancelled stays as it is
C25_Step ==
    \A c \in Components :
        /\ (TaskPc(c) = "failed" /\ TaskPc(c)' # "failed") =>
               /\ svc.is_running
               /\ svc'.restarts > svc.restarts
               /\ TaskPc(c)' = (IF c = "risk" THEN "check" ELSE "halt")
        /\ (TaskPc(c) \in {"stopped", "cancelled"}) => TaskPc(c)' = TaskPc(c)

\* C25: while the service is running, a task of the Accumulator, the
\* Equalizer or the Risk Engine that completed with an error is eventually
\* replaced by a new task at the top of its loop; a task that completed without
\* error is not restarted.
C25_FailedTaskRestarted ==
    /\ \A c \in Components :
          FailedWhileRunning(c) ~> (TaskPc(c) # "failed" \/ ~svc.is_running)
    /\ [][C25_Step]_vars

\* both failures have happened and both tasks were replaced, while the
\* Accumulator, which had ended at the settlement buffer, was left alone
C25_Witness ==
    /\ svc.failures = MaxFailures
    /\ svc.restarts = MaxFailures
    /\ svc.is_running
    /\ acc.pc = "stopped"
    /\ task_running(eq.pc)
    /\ task_running(risk.pc)
\* the stop-loss condition: both tokens have a top bid and a top ask, and the
\* position marked at the mids (mean of top bid and top ask) shows a loss
\* beyond bailout_stop_loss_percent of its cost
StopLossDue(position, order_book) ==
    /\ order_book.yes_bids # <<>> /\ order_book.yes_asks # <<>>
    /\ order_book.no_bids # <<>> /\ order_book.no_asks # <<>>
    /\ LET mid_yes == Frac(order_book.yes_bids[1].price + order_book.yes_asks[1].price, 2)
           mid_no == Frac(order_book.no_bids[1].price + order_book.no_asks[1].price, 2)
           cost == FAdd(position.cost_yes, position.cost_no)
           value == FAdd(FMul(Dec(position.qty_yes), mid_yes),
                         FMul(Dec(position.qty_no), mid_no))
       IN  FLt(FSub(value, cost),
               FSub(Dec(0), FMul(cost, Frac(bailout_stop_loss_percent, 100))))

\* on the stored position and every book of the venue the check of the Risk
\* Engine gives the stop-loss condition
C26_Trigger ==
    \A order_book \in Books :
        check_bailout_stop_loss(get_position(redis_position), order_book.yes_bids,
                                order_book.yes_asks, order_book.no_bids,
                                order_book.no_asks)
            = StopLossDue(get_position(redis_position), order_book)

\* a risk check ends in the emergency liquidation exactly when it found the
\* stop-loss (risk_level CRITICAL), and then on a book for which the
\* condition holds on the position it read
C26_Step ==
    (/\ risk.pc = "check"
     /\ risk'.pc \in {"check", "set_halt", "liquidate"}
     /\ risk' # risk) =>
        /\ (risk'.risk_level = "CRITICAL") = (risk'.pc = "liquidate")
        /\ risk'.pc = "liquidate" =>
               /\ liq'["risk"].pc = "cancel"
               /\ \E order_book \in Books :
                      StopLossDue(get_position(redis_position), order_book)

C27_EqualizerStopsOnHalt == halted_orders.eq <= 1

\* an iteration of the Accumulator loop that reads the halt flag as set goes
\* to its one-second sleep and from there back to the top of the loop, and
\* neither step places an order or touches the position or a pending update
C28_Step ==
    /\ (acc.pc = "halt" /\ redis_halt = "1" /\ acc' # acc) =>
           /\ acc'.pc = "paused"
           /\ UNCHANGED <<redis_position, redis_trades, upd, orders, last_order>>
    /\ (acc.pc = "paused" /\ acc' # acc) =>
           /\ acc'.pc = "halt"
           /\ UNCHANGED <<redis_position, redis_trades, upd, orders, last_order>>

\* C28: an Accumulator loop iteration that reads the halt flag as set places
\* no order and does not mutate the position; once the flag is set and stays
\* set the Accumulator has at most one order accepted, that of the scan which
\* was in progress.
C28_AccumulatorStopsOnHalt == [](halted_orders.acc <= 1) /\ [][C28_Step]_vars

\* the flag was set during a scan, the order of that scan was accepted and
\* its update committed, and the Accumulator has since read the flag and
\* sleeps, with the venue ready to accept another order
C28_Witness ==
    /\ redis_halt = "1"
    /\ halted_orders.acc = 1
    /\ last_commit.task = "acc"
    /\ acc.pc = "paused"
    /\ orders.buy < order_budget.buy
\* the abort conditions of a rebalance on a position with a delta: the side
\* with fewer shares has no ask in the book, or the average cost of the other
\* side, cost / quantity, is 0.99 or more
RebalanceAborts(position, order_book) ==
    LET more_yes == position.qty_yes > position.qty_no
        lagging_asks == IF more_yes THEN order_book.no_asks ELSE order_book.yes_asks
        qty == IF more_yes THEN position.qty_yes ELSE position.qty_no
        cost == IF more_yes THEN position.cost_yes ELSE position.cost_no
    IN  \/ lagging_asks = <<>>
        \/ FLe(Dec(EQ_CEILING * qty), cost)

Unbalanced(position) == Abs(position.qty_yes - position.qty_no) >= 1

\* whenever the Equalizer is about to look at the position, on each book of
\* the venue that meets an abort condition it sets out to do nothing
C29_Plan ==
    eq.pc = "check" =>
       LET position == get_position(redis_position)
       IN  \A order_book \in Books :
              (Unbalanced(position) /\ RebalanceAborts(position, order_book)) =>
                 rebalance_plan(position, order_book) = EqIdle

\* the look at the position ends as planned on one book of the venue, and
\* when it ends in nothing, no order was placed and neither the position nor
\* the log nor an update changed
C29_Step ==
    (eq.pc = "check" /\ eq' # eq) =>
       /\ \E order_book \in Books :
             eq' = rebalance_plan(get_position(redis_position), order_book)
       /\ eq' = EqIdle =>
             UNCHANGED <<redis_position, redis_trades, upd, orders, last_order>>

\* C29: when 0.99 minus the average cost of the non-lagging side is <= 0, or
\* the lagging side has no ask, the Equalizer aborts the rebalance without
\* placing an order and without changing the position.
C29_RebalanceAborted == [](C29_Plan) /\ [][C29_Step]_vars

\* the Equalizer looks at 10 unhedged YES whose average cost is 1.00
C29_Witness ==
    /\ eq.pc = "check"
    /\ LET position == get_position(redis_position)
       IN  /\ position.qty_yes = 10
           /\ position.qty_no = 0
           /\ position.cost_yes = Dec(1000)
    /\ orders.buy = 0

\* a plan to buy the whole delta on the side with fewer shares, in chunks of
\* at most trade_size
BuysLagging(plan, position) ==
    /\ plan.pc = "order"
    /\ plan.side = (IF position.qty_yes > position.qty_no THEN "NO" ELSE "YES")
    /\ plan.remaining = Abs(position.qty_yes - position.qty_no)
    /\ plan.chunk_size <= trade_size

\* during the chunk loop the stored delta is what is left to buy, counting
\* the chunk in hand once its update is committed, and the side bought is
\* the one with fewer shares
C30_Progress ==
    eq.pc \in {"order", "update", "trim"} =>
       LET position == get_position(redis_position)
           trade_qty == Min(eq.remaining, eq.chunk_size)
           applied == eq.pc = "trim" \/ (eq.pc = "update" /\ upd["eq"].pc = "done")
           left == IF applied THEN eq.remaining - trade_qty ELSE eq.remaining
       IN  /\ Abs(position.delta) = left
           /\ position.delta > 0 => eq.side = "NO"
           /\ position.delta < 0 => eq.side = "YES"
           /\ trade_qty >= 1

\* every accepted order of the loop is a BUY of its side of at most
\* trade_size, and the loop ends on a stored delta of 0
C30_Loop ==
    /\ (eq.pc = "order" /\ eq'.pc = "update") =>
           /\ last_order'.by = "eq"
           /\ last_order'.action = "BUY"
           /\ last_order'.side = eq.side
           /\ last_order'.size = Min(eq.remaining, eq.chunk_size)
           /\ last_order'.size <= trade_size
    /\ (eq.pc = "trim" /\ eq'.pc = "halt") =>
           get_position(redis_position').delta = 0

\* every look at a position with a delta starts the chunk loop, and a look at
\* a position without one places no order
C30_EveryPass_Step ==
    /\ C30_Loop
    /\ (eq.pc = "check" /\ eq' # eq) =>
           LET position == get_position(redis_position)
           IN  IF Unbalanced(position) THEN BuysLagging(eq', position)
               ELSE eq' = EqIdle /\ UNCHANGED <<orders, last_order>>

C30_Plan ==
    eq.pc = "check" =>
       LET position == get_position(redis_position)
       IN  \A order_book \in Books :
              /\ (Unbalanced(position) /\ ~RebalanceAborts(position, order_book)) =>
                     BuysLagging(rebalance_plan(position, order_book), position)
              /\ ~Unbalanced(position) =>
                     rebalance_plan(position, order_book) = EqIdle

C30_Step ==
    /\ C30_Loop
    /\ (eq.pc = "check" /\ eq' # eq) =>
           /\ \E order_book \in Books :
                 eq' = rebalance_plan(get_position(redis_position), order_book)
           /\ UNCHANGED <<redis_position, orders, last_order>>

TopFive(entries) ==
    LET size(i) == IF i <= Len(entries) THEN entries[i].size ELSE 0
    IN  size(1) + size(2) + size(3) + size(4) + size(5)

\* the Accumulator is about to place a buy only with a book of its scan in
\* hand whose opposite asks hold the required liquidity in their top five
C31_Liquid ==
    acc.pc = "order" =>
       /\ acc.seen # <<>>
       /\ LET order_book == acc.seen[1]
              opposite_asks == IF acc.side = "YES" THEN order_book.no_asks
                               ELSE order_book.yes_asks
          IN  TopFive(opposite_asks) >= trade_size * min_liquidity_multiplier

\* an order of the Accumulator is accepted only at that point of its scan,
\* and for the side the scan chose
C31_Step ==
    (last_order' # last_order /\ last_order'.by = "acc") =>
       /\ acc.pc = "order"
       /\ last_order'.side = acc.side

\* C31: the Accumulator executes a buy of side S only if, in the order book
\* it read on that scan, the summed size of the top 5 ask levels of the
\* opposite side is at least trade_size * min_liquidity_multiplier.
C31_LiquidityBeforeBuy == [](C31_Liquid) /\ [][C31_Step]_vars

\* a buy of YES is about to be placed on the book whose YES asks are thin
\* and whose NO asks are deep
C31_Witness ==
    /\ acc.pc = "order"
    /\ acc.side = "YES"
    /\ TopFive(acc.seen[1].yes_asks) < trade_size * min_liquidity_multiplier
    /\ TopFive(acc.seen[1].no_asks) >= trade_size * min_liquidity_multiplier
    /\ orders.buy < order_budget.buy
\* the summed size of the ten best levels of a side of the book
TopTen(entries) ==
    LET size(i) == IF i <= Len(entries) THEN entries[i].size ELSE 0
    IN  size(1) + size(2) + size(3) + size(4) + size(5)
          + size(6) + size(7) + size(8) + size(9) + size(10)

\* the risk level the findings on a position, a book and the clock call for
LevelDue(position, order_book, in_buffer) ==
    LET delta_failed == Abs(position.qty_yes - position.qty_no) > max_unhedged_delta
        liquidity_failed == \/ TopTen(order_book.yes_asks) < position.qty_yes
                            \/ TopTen(order_book.no_asks) < position.qty_no
    IN  IF StopLossDue(position, order_book) THEN "CRITICAL"
        ELSE IF delta_failed \/ liquidity_failed THEN "HIGH"
        ELSE IF in_buffer THEN "MEDIUM"
        ELSE "LOW"

\* on the stored position, every book of the venue and the clock as it
\* stands, the level the Risk Engine computes from its four checks is the
\* level due
C32_Level ==
    LET position == get_position(redis_position)
    IN  \A order_book \in Books :
           update_risk_level(
               check_max_delta(position),
               check_liquidity_depth(position, order_book.yes_asks, order_book.no_asks),
               check_bailout_stop_loss(position, order_book.yes_bids,
                                       order_book.yes_asks, order_book.no_bids,
                                       order_book.no_asks),
               within_buffer)
             = LevelDue(position, order_book, within_buffer)

\* a completed check leaves the level due on the position it read, on one
\* book of the venue and on the clock, whatever the level was before
C32_Step ==
    (/\ risk.pc = "check"
     /\ risk'.pc \in {"check", "set_halt", "liquidate"}
     /\ risk' # risk) =>
        /\ \E order_book \in Books :
               risk'.risk_level =
                   LevelDue(get_position(redis_position), order_book, within_buffer)
        /\ risk'.settlement_risk = within_buffer

\* C32: after each completed risk check the risk level is CRITICAL if the
\* stop-loss tripped, otherwise HIGH if the delta check or the liquidity
\* check failed, otherwise MEDIUM if the settlement buffer is reached,
\* otherwise LOW; it depends only on the current check's results.
C32_RiskLevel == [](C32_Level) /\ [][C32_Step]_vars

\* a check within the settlement buffer has found the delta past its limit
\* and no stop-loss: the level is HIGH and the halt flag is about to be set
C32_Witness ==
    /\ risk.pc = "set_halt"
    /\ risk.settlement_risk
    /\ risk.risk_level = "HIGH"
    /\ get_position(redis_position) = OverDeltaPosition
\* the legs an emergency liquidation found to sell when it read the position
LegsToSell(l) ==
    (IF liq[l].qty_yes > 0 THEN 1 ELSE 0) + (IF liq[l].qty_no > 0 THEN 1 ELSE 0)

\* the one emergency liquidation of the run sets the halt flag having had a
\* sell accepted for every leg it read, at least one: the stored position
\* is then flat
C33_Step ==
    \A l \in LiqTasks :
       (/\ LiqAt(l) = "set_halt"
        /\ liq'[l] = LiqIdle
        /\ redis_halt' = "1"
        /\ LegsToSell(l) >= 1
        /\ orders.sell = LegsToSell(l)) =>
           /\ get_position(redis_position').qty_yes = 0
           /\ get_position(redis_position').qty_no = 0

\* C33: when an emergency liquidation finishes with every sell accepted, the
\* stored position has qty_yes = 0 and qty_no = 0 at the moment the halt
\* flag is set, in every interleaving with Accumulator and Equalizer trades.
C33_FlatAtHalt == [][C33_Step]_vars
\* a check of the Risk Engine on a stored position with no share on either
\* side does not find the stop-loss and starts no emergency liquidation
C34_Step ==
    (/\ risk.pc = "check"
     /\ risk' # risk
     /\ get_position(redis_position).qty_yes = 0
     /\ get_position(redis_position).qty_no = 0) =>
        /\ risk'.pc # "liquidate"
        /\ risk'.risk_level # "CRITICAL"
        /\ liq'["risk"] = liq["risk"]

\* C34: once both legs are flat (qty_yes = qty_no = 0), for example right
\* after an emergency liquidation sold both legs, the stop-loss check does
\* not trigger and the Risk Engine does not start another emergency
\* liquidation on later checks.
C34_FlatNeverLiquidates == [][C34_Step]_vars
\* C35: whenever every executed order price lies in [0, 1] (every price of
\* the venue's books does), the stored avg_yes and avg_no lie in [0, 1] in
\* every reachable state, including for buys committed after an emergency
\* liquidation has sold a leg down to quantity zero.
C35_AveragesArePrices ==
    LET position == get_position(redis_position)
    IN  /\ FLe(Dec(0), position.avg_yes) /\ FLe(position.avg_yes, Dec(ONE))
        /\ FLe(Dec(0), position.avg_no) /\ FLe(position.avg_no, Dec(ONE))
\* C36: a trade committed by the Equalizer never increases |delta| of the
\* stored position and never flips its sign, in every interleaving with
\* Accumulator trades and emergency liquidation.
C36_EqualizerTowardsBalance ==
    last_commit.task = "eq" =>
       /\ Abs(last_commit.after.delta) <= Abs(last_commit.before.delta)
       /\ last_commit.before.delta * last_commit.after.delta >= 0
\* an update commits the stored primaries plus its own deltas, and an update
\* whose read of the position failed commits nothing
C37_Step ==
    \A t \in Tasks :
       /\ (upd[t].pc = "exec" /\ upd'[t].pc = "done") =>
              LET before == get_position(redis_position)
                  after == get_position(redis_position')
                  yes == upd[t].side = "YES"
                  no == upd[t].side = "NO"
              IN  /\ after.qty_yes = before.qty_yes + (IF yes THEN upd[t].qty_delta ELSE 0)
                  /\ after.qty_no = before.qty_no + (IF no THEN upd[t].qty_delta ELSE 0)
                  /\ after.cost_yes =
                        FAdd(before.cost_yes, IF yes THEN upd[t].cost_delta ELSE Dec(0))
                  /\ after.cost_no =
                        FAdd(before.cost_no, IF no THEN upd[t].cost_delta ELSE Dec(0))
       /\ (upd[t].pc = "exec" /\ upd[t].read_failed /\ upd'[t] # upd[t]) =>
              redis_position' = redis_position

\* C37: a failed store read inside update_position_atomic never leads to a
\* commit that discards previously committed inventory: every committed
\* position's primaries equal the previously committed primaries plus the
\* applied delta, and if the read fails the stored position stays unchanged.
C37_FailedReadCommitsNothing == [][C37_Step]_vars
\* C38: every committed position mutation has a Trade record in the trade
\* log: once no update of the Accumulator, the Equalizer or a liquidation is
\* under way, the log, begun empty and below its limit, holds as many trades
\* as updates were committed (one per buy and one per sell, so that the
\* stored quantities are the logged buys minus the logged sells).
C38_EveryMutationLogged ==
    ((\A t \in SystemTasks : upd[t].pc = "idle") /\ redis_trades < MAX_TRADES) =>
        redis_trades = commits
\* a pass through the top of the Accumulator's or the Equalizer's loop while
\* the halt flag is set does not go on to the scan or the rebalance
C39_Step ==
    /\ (acc.pc = "halt" /\ redis_halt = "1" /\ acc' # acc) => acc'.pc # "scan"
    /\ (eq.pc = "halt" /\ redis_halt = "1" /\ eq' # eq) => eq'.pc # "check"

\* C39: if the halt flag is set in the store, a loop iteration of the
\* Accumulator or the Equalizer whose halt-flag read fails places no order:
\* a failed read of the halt flag is never treated as not halted.
C39_FailedReadStaysHalted == [][C39_Step]_vars

\* C40: at any time at most one Accumulator loop, at most one Equalizer loop
\* and at most one Risk Engine loop is running, whatever start(), stop() and
\* the supervisor do, a second start() before the first selected its market
\* included
C40_OneLoopEach ==
    \A c \in Components : running_loops(c) <= 1

====
